---- MODULE Spec2Model ----
(***************************************************************************)
(* Model of the outline-ss-server replay cache (shadowsocks/replay.go) and *)
(* of the AEAD stream framing (shadowsocks stream writer and reader).      *)
(*                                                                         *)
(* Word widths are scaled down: a uint64 key is a WordBits-bit number, a   *)
(* byte of an IV ranges over ByteVals, an IV has IVLen bytes.  The code    *)
(* is translated at that width with the same half-word arithmetic.         *)
(***************************************************************************)
EXTENDS Integers, Sequences, FiniteSets, TLC

\* ------------------------------------------------------------------ bounds
HalfBits == 2          \* half the width of a hash key (32 in the code)
IVLen == 2             \* bytes of an IV (const length = 32 in the code)
MaxByte == 2           \* a byte of an IV ranges over 0..MaxByte
MaxRetention == 2      \* NewIVCache(n) is called with n in 1..MaxRetention
NumCallers == 2        \* threads calling set64Cache.Add concurrently
MaxCalls == 4          \* Add calls made in all by the concurrent threads
MaxRotCalls == 6       \* Add calls made in all while three rotations are followed
MaxSeqCalls == 5       \* Add calls made by the single sequential caller
MaxHistCalls == 8      \* Add calls made while the insertion history is kept
MaxScenCalls == 9      \* Add calls made by the archive scenario
ByteBits == 2          \* bits of a byte on a stream (8 in the code)
PayloadBits == 3       \* bits of payloadSizeMask (14 in the code)
SaltSize == 1          \* ssCipher.SaltSize()
NonceSize == 3         \* aead.NonceSize()
Overhead == 1          \* aead.Overhead()
MaxPlain == 8          \* bytes of plaintext given to a writer
MaxBuf == 2            \* length of the buffer passed to Reader.Read
MaxFaults == 1         \* failed sink writes and altered bytes on a stream
MaxShort == 4          \* bytes of plaintext given to a writer whose reader is examined
MaxSetLen == 4         \* cells of a Set64 used on its own
NumBoxes == 2          \* boxes made on one pool
MaxMade == 3           \* buffers the pool's New function makes

\* ------------------------------------------------------- program constants
NSets == 3             \* NewIVCache builds three sets (active, archive, spare)
maxCipherOverhead == 16
maxOccupancyNum == 19  \* maxOccupancy = 0.95 = 19/20
maxOccupancyDen == 20

WordBits == 2 * HalfBits
WordMod == 2 ^ WordBits
HalfMod == 2 ^ HalfBits
Keys == 0 .. (WordMod - 1)
ByteVals == 0 .. MaxByte
IVs == [1 .. IVLen -> ByteVals]

Max(a, b) == IF a >= b THEN a ELSE b

\* ------------------------------------------------------------ byteHasher
\* Bitwise exclusive or of two WordBits-bit numbers.
RECURSIVE XorBits(_, _, _)
XorBits(a, b, k) ==
    IF k = 0 THEN 0
    ELSE ((a + b) % 2) + 2 * XorBits(a \div 2, b \div 2, k - 1)

Xor(a, b) == XorBits(a, b, WordBits)

\* byteHasher.Hash: hash ^= h[i][vec[i]] for i in 0..length-1.
\* h is 1-indexed by position and 0-indexed (shifted by one) by byte value.
RECURSIVE HashFrom(_, _, _)
HashFrom(h, vec, i) ==
    IF i > IVLen THEN 0
    ELSE Xor(h[i][vec[i] + 1], HashFrom(h, vec, i + 1))

Hash(h, vec) == HashFrom(h, vec, 1)

\* MakeByteHasher fills the table from the entropy source: every table of
\* WordBits-bit numbers is possible.  The model draws it from three tables:
\* one that separates the IVs (keys 1, 5, 9, 14, 10, 6, 11, 15, 3), one that
\* hashes the IV <<0, 0>> to zero, one under which IVs collide.
SeparatingTable ==
    [i \in 1 .. IVLen |-> [b \in 1 .. (MaxByte + 1) |->
        IF i = 1 THEN (13 * (b - 1) + 1) % WordMod
        ELSE (4 * (i - 1) * (b - 1)) % WordMod]]

ZeroTable ==
    [i \in 1 .. IVLen |-> [b \in 1 .. (MaxByte + 1) |->
        IF i = 1 THEN (13 * (b - 1) + 1) % WordMod
        ELSE (4 * (i - 1) * (b - 1) + (IF i = 2 THEN 1 ELSE 0)) % WordMod]]

CollidingTable ==
    [i \in 1 .. IVLen |-> [b \in 1 .. (MaxByte + 1) |->
        IF i = 1 THEN (5 + 4 * ((b - 1) \div 2)) % WordMod
        ELSE (2 * (i - 1) * (b - 1)) % WordMod]]

HasherTables == {SeparatingTable, ZeroTable, CollidingTable}

\* ----------------------------------------------------------------- topmul
\* topmul without the carry out of the low half-words.
topmul_NoCarry(a, b) ==
    LET a0 == a % HalfMod
        a1 == a \div HalfMod
        b0 == b % HalfMod
        b1 == b \div HalfMod
    IN  ((a1 * b1) % WordMod) + (((a0 * b1) % WordMod) \div HalfMod)
           + (((a1 * b0) % WordMod) \div HalfMod)

\* Returns a * b / 2^WordBits from half-word partial products.
topmul(a, b) ==
    LET a0 == a % HalfMod
        a1 == a \div HalfMod
        b0 == b % HalfMod
        b1 == b \div HalfMod
        a0b0 == (a0 * b0) % WordMod
        a0b1 == (a0 * b1) % WordMod
        a1b0 == (a1 * b0) % WordMod
        a1b1 == (a1 * b1) % WordMod
        carry == (((a0b0 \div HalfMod) + (a0b1 % HalfMod) + (a1b0 % HalfMod))
                    % WordMod) \div HalfMod
    IN  a1b1 + (a0b1 \div HalfMod) + (a1b0 \div HalfMod) + carry

\* ------------------------------------------------------------------ Set64
\* A Set64 is [vals, count, wrap]; vals[i + 1] is the cell the code calls
\* vals[i]; the field length is Len(vals).
NoFail == 0

\* NewSet64 over a zeroed slice of `len` cells.
EmptySet64(len) == [vals |-> [i \in 1 .. len |-> 0], count |-> 0, wrap |-> 0]

\* The loop of NewSet64 over the cells of `file`, from index i on, until
\* file.Get returns io.EOF.  a holds the locals maxVal, maxIndex, minVal,
\* minIndex and count; minVal starts at 0 and a uint64 is never below it.
RECURSIVE NewSet64Scan(_, _, _)
NewSet64Scan(file, i, a) ==
    IF i >= Len(file) THEN a
    ELSE LET val == file[i + 1]
             c1 == [a EXCEPT !.count = @ + 1]
             c2 == IF val > c1.maxVal
                   THEN [c1 EXCEPT !.maxVal = val, !.maxIndex = i] ELSE c1
             c3 == IF val < c2.minVal
                   THEN [c2 EXCEPT !.minVal = val, !.minIndex = i] ELSE c2
         IN  NewSet64Scan(file, i + 1, IF val # 0 THEN c3 ELSE a)

\* NewSet64(file): length, count and wrap are figured out from the cells.
NewSet64(file) ==
    LET a == NewSet64Scan(file, 0, [maxVal |-> 0, maxIndex |-> -1, minVal |-> 0,
                                    minIndex |-> -1, count |-> 0])
    IN  [vals |-> file, count |-> a.count,
         wrap |-> IF a.minIndex > a.maxIndex THEN a.maxIndex + 1 ELSE 0]

\* A start index that takes no account of wrap.
start_NoWrap(s, val) == topmul(Len(s.vals), val)

start(s, val) == Max(topmul(Len(s.vals), val), s.wrap)

SetResult(s, ok, err, ops) == [s |-> s, ok |-> ok, err |-> err, ops |-> ops]

\* A probe loop that does not stop at the wrap point.
RECURSIVE ContainsLoop_NoStop(_, _, _, _, _)
ContainsLoop_NoStop(s, val, i, ops, failAt) ==
    LET n == ops + 1 IN
    IF n > 2 * Len(s.vals) + 2 THEN SetResult(s, FALSE, "diverged", ops)
    ELSE IF n = failAt THEN SetResult(s, FALSE, "io", n)
    ELSE IF i >= Len(s.vals) THEN ContainsLoop_NoStop(s, val, 0, n, failAt)
    ELSE LET v == s.vals[i + 1] IN
         IF v = 0 \/ v > val THEN SetResult(s, FALSE, "nil", n)
         ELSE IF v = val THEN SetResult(s, TRUE, "nil", n)
         ELSE ContainsLoop_NoStop(s, val, i + 1, n, failAt)

\* The probe loop of Set64.Contains.  ops counts the calls of vals.Get made
\* so far; the call number failAt fails with an I/O error.
RECURSIVE ContainsLoop(_, _, _, _, _)
ContainsLoop(s, val, i, ops, failAt) ==
    LET n == ops + 1 IN
    IF n > 2 * Len(s.vals) + 2 THEN SetResult(s, FALSE, "diverged", ops)
    ELSE IF n = failAt THEN SetResult(s, FALSE, "io", n)
    ELSE IF i >= Len(s.vals)
         THEN \* io.EOF from Get
              IF 0 = s.wrap THEN SetResult(s, FALSE, "nil", n)
              ELSE ContainsLoop(s, val, 0, n, failAt)
    ELSE LET v == s.vals[i + 1] IN
         IF v = 0 \/ v > val THEN SetResult(s, FALSE, "nil", n)
         ELSE IF v = val THEN SetResult(s, TRUE, "nil", n)
         ELSE IF i + 1 = s.wrap THEN SetResult(s, FALSE, "nil", n)
         ELSE ContainsLoop(s, val, i + 1, n, failAt)

\* A Contains that probes for zero as for any value.
Set64Contains_ZeroOk(s, val, failAt) ==
    ContainsLoop(s, val, start(s, val), 0, failAt)

Set64Contains(s, val, failAt) ==
    IF val = 0 THEN SetResult(s, FALSE, "zero", 0)
    ELSE ContainsLoop(s, val, start(s, val), 0, failAt)

\* The probe loop of Set64.Add.  ops counts the calls of vals.Get and
\* vals.Set made so far; the call number failAt fails with an I/O error.
RECURSIVE AddLoop(_, _, _, _, _)
RECURSIVE AddWrap(_, _, _, _, _)

\* A wrap block that stores the value and leaves s.wrap where it was.
AddWrap_NoAdvance(s, val, i, ops, failAt) ==
    IF i # s.wrap THEN AddLoop(s, val, i, ops, failAt)
    ELSE IF i >= Len(s.vals) THEN SetResult(s, FALSE, "eof", ops + 1)
    ELSE LET v == s.vals[i + 1]
             s1 == [s EXCEPT !.vals[i + 1] = val]
         IN  IF v = 0
             THEN SetResult([s1 EXCEPT !.count = s.count + 1], TRUE, "nil", ops + 2)
             ELSE AddLoop(s1, v, i + 1, ops + 2, failAt)

\* The block `if i == s.wrap { ... }` at the end of the loop body.
AddWrap(s, val, i, ops, failAt) ==
    IF i # s.wrap THEN AddLoop(s, val, i, ops, failAt)
    ELSE IF ops + 1 = failAt THEN SetResult(s, FALSE, "io", ops + 1)
    ELSE IF i >= Len(s.vals) THEN SetResult(s, FALSE, "eof", ops + 1)
    ELSE IF ops + 2 = failAt THEN SetResult(s, FALSE, "io", ops + 2)
    ELSE LET v == s.vals[i + 1]
             s1 == [s EXCEPT !.vals[i + 1] = val, !.wrap = s.wrap + 1]
         IN  IF v = 0
             THEN SetResult([s1 EXCEPT !.count = s.count + 1], TRUE, "nil", ops + 2)
             ELSE AddLoop(s1, v, i + 1, ops + 2, failAt)

\* A loop that stores a value in an empty cell without counting it.
AddLoop_NoCount(s, val, i, ops, failAt) ==
    LET n == ops + 1 IN
    IF n > 6 * Len(s.vals) + 6 THEN SetResult(s, FALSE, "diverged", ops)
    ELSE IF i >= Len(s.vals) THEN AddWrap(s, val, 0, n, failAt)
    ELSE LET v == s.vals[i + 1] IN
         IF v = 0 THEN SetResult([s EXCEPT !.vals[i + 1] = val], TRUE, "nil", n + 1)
         ELSE IF v = val THEN SetResult(s, FALSE, "nil", n)
         ELSE IF v > val
              THEN AddWrap([s EXCEPT !.vals[i + 1] = val], v, i + 1, n + 1, failAt)
         ELSE AddWrap(s, val, i + 1, n, failAt)

AddLoop(s, val, i, ops, failAt) ==
    LET n == ops + 1 IN
    IF n > 6 * Len(s.vals) + 6 THEN SetResult(s, FALSE, "diverged", ops)
    ELSE IF n = failAt THEN SetResult(s, FALSE, "io", n)
    ELSE IF i >= Len(s.vals)
         THEN AddWrap(s, val, 0, n, failAt)
    ELSE LET v == s.vals[i + 1] IN
         IF v = 0
         THEN IF n + 1 = failAt THEN SetResult(s, FALSE, "io", n + 1)
              ELSE SetResult([s EXCEPT !.vals[i + 1] = val, !.count = s.count + 1],
                             TRUE, "nil", n + 1)
         ELSE IF v = val THEN SetResult(s, FALSE, "nil", n)
         ELSE IF v > val
              THEN IF n + 1 = failAt THEN SetResult(s, FALSE, "io", n + 1)
                   ELSE AddWrap([s EXCEPT !.vals[i + 1] = val], v, i + 1, n + 1, failAt)
         ELSE AddWrap(s, val, i + 1, n, failAt)

\* An Add that does not look at count before it probes.
Set64Add_NoFull(s, val, failAt) ==
    IF val = 0 THEN SetResult(s, FALSE, "zero", 0)
    ELSE AddLoop(s, val, start(s, val), 0, failAt)

Set64Add(s, val, failAt) ==
    IF val = 0 THEN SetResult(s, FALSE, "zero", 0)
    ELSE IF s.count = Len(s.vals) THEN SetResult(s, FALSE, "full", 0)
    ELSE AddLoop(s, val, start(s, val), 0, failAt)

\* A Clear that leaves the cells as they are.
Set64Clear_Keep(s) == s

\* A Clear that zeroes the cells and wrap and leaves count as it was.
Set64Clear_KeepCount(s) ==
    [vals |-> [i \in 1 .. Len(s.vals) |-> 0], count |-> s.count, wrap |-> 0]

\* A Clear that zeroes the cells and count and leaves wrap as it was.
Set64Clear_KeepWrap(s) ==
    [vals |-> [i \in 1 .. Len(s.vals) |-> 0], count |-> 0, wrap |-> s.wrap]

\* Set64.Clear: every cell zeroed, count and wrap reset.
Set64Clear(s) == [vals |-> [i \in 1 .. Len(s.vals) |-> 0], count |-> 0, wrap |-> 0]

Members(s) == {s.vals[i] : i \in 1 .. Len(s.vals)} \ {0}

\* ------------------------------------------------------------- set64Cache
VARIABLES
    n,        \* the argument of NewIVCache
    hasher,   \* c.hasher, the byteHasher table
    sets,     \* c.sets: slot 0..NSets-1 -> the Set64 object in that slot
    objs,     \* the Set64 objects
    locks,    \* c.locks: slot -> [w: write-locked, r: number of read locks]
    call,     \* per calling thread: the locals of its Add call
    clr,      \* the goroutine that clears the new spare
    rots,     \* number of rotations performed
    ncalls,   \* number of Add calls invoked so far
    ret,      \* what the Add call that returned last returned
    retEpoch, \* per IV: rots at the insertion by the last Add that returned true
    used,     \* hash keys of the Add calls invoked so far
    clean,    \* every Add so far had a nonzero key that no earlier Add had
    mode,     \* what is in use and who drives it ("conc", "seq", "set", ...)
    watch,    \* sequential use: an IV whose Add returned true, and the Adds since
    hist,     \* sequential use: the earliest inserted IV and the IVs inserted
    scn,      \* sequential use: progress of the archive scenario
    saved     \* restart: the hash keys the cache remembered when it was closed

\* ------------------------------------------------- stream writer and reader
VARIABLES
    plain,    \* the plaintext the application gives to the writer
    wpos,     \* how many bytes of it the writer's calls have consumed
    sw,       \* the shadowsocksWriter: [aead, salt, counter]
    wire,     \* the bytes written to the sink and not yet read by the reader
    closed,   \* the sink was closed: the reader's source ends after `wire`
    sr,       \* the shadowsocksReader: [aead, salt, counter, leftover, box]
    out,      \* the bytes the reader has delivered
    rlast,    \* the result of the reader's last call
    wlog,     \* the seals made by the writer: [kind, nonce, n]
    rlog,     \* the opens made by the reader: [kind, nonce, sealed, len, ok]
    ovh,      \* aead.Overhead() of the cipher the two ends were made with
    sink,     \* the calls of sw.writer.Write: [buf, ok]
    wret,     \* what the writer's last call was and what it returned
    rret,     \* what the reader's last call was and what it returned
    faults    \* failed sink writes and altered bytes so far

\* ------------------------------------------------------- one Set64 alone
VARIABLES
    s64,      \* a Set64 used on its own: [vals, count, wrap]
    kept,     \* the values whose Add returned true since the last Clear
    sres      \* the last operation on s64 and what it returned

setVars == <<s64, kept, sres>>

\* ------------------------------------------------------- slice-pool boxes
VARIABLES
    bx,       \* the boxes of one pool: [boxes, pool, made]
    bres      \* the last operation on a box and what it did

boxVars == <<bx, bres>>

\* ------------------------------------------------------ map-based IVCache
VARIABLES
    ivc,      \* the IVCache: [capacity, active, archive]
    ivw       \* an IV whose Add returned true, what came since, the last call

mapVars == <<ivc, ivw>>

\* ------------------------------------------------- a function on its own
VARIABLES
    fn        \* the arguments of topmul, start or increment and what it returned

fnVars == <<fn>>

streamVars ==
    <<plain, wpos, sw, wire, closed, sr, out, rlast, wlog, rlog, ovh, sink, wret,
      rret, faults>>

cfgVars == <<n, hasher>>
histVars == <<ncalls, ret, retEpoch, used, clean>>
cacheVars == <<cfgVars, sets, objs, locks, call, clr, rots, histVars>>
seqVars == <<mode, watch, hist, scn, saved, setVars, boxVars, mapVars, fnVars>>
otherVars == <<seqVars, streamVars>>
vars == <<cacheVars, otherVars>>

Slots == 0 .. (NSets - 1)

\* for i := 1; i < len(c.sets)-1; i++
Archives == 1 .. (NSets - 2)
Objects == 1 .. NSets
Callers == 1 .. NumCallers

\* Sets of exactly n cells.
Capacity_Tight(r) == r

\* n = int(float64(n)/maxOccupancy) + 1
Capacity(r) == (r * maxOccupancyDen) \div maxOccupancyNum + 1

\* A rotation after every insertion.
AtThreshold_NoCap(s) == s.count * maxOccupancyDen >= maxOccupancyNum

\* float64(c.sets[0].Count()) >= maxOccupancy*float64(c.sets[0].Capacity())
AtThreshold(s) == s.count * maxOccupancyDen >= maxOccupancyNum * Len(s.vals)

\* The rotation without its last statement, c.sets[0] = spare.
Rotate_KeepActive(ss) == [i \in Slots |-> IF i = 0 THEN ss[0] ELSE ss[i - 1]]

\* A rotation that exchanges the active set and the spare.
Rotate_Swap(ss) ==
    [i \in Slots |-> IF i = 0 THEN ss[NSets - 1] ELSE IF i = NSets - 1 THEN ss[0] ELSE ss[i]]

\* spare := c.sets[N-1]; copy(c.sets[1:], c.sets[0:N-1]); c.sets[0] = spare
Rotate(ss) == [i \in Slots |-> IF i = 0 THEN ss[NSets - 1] ELSE ss[i - 1]]

\* A result that ignores what the archive scans found.
AddResult_NoArchive(errs, found, added, addErr) ==
    IF \E i \in Slots : errs[i] # "nil"
    THEN [added |-> FALSE, err |-> "scan"]
    ELSE [added |-> added, err |-> addErr]

\* The tail of set64Cache.Add: the first error of an archive scan, else
\* false if an archive scan found the key, else what the active set said.
AddResult(errs, found, added, addErr) ==
    IF \E i \in Slots : errs[i] # "nil"
    THEN [added |-> FALSE,
          err |-> errs[CHOOSE i \in Slots :
                         errs[i] # "nil" /\ \A j \in Slots : j < i => errs[j] = "nil"]]
    ELSE IF \E i \in Slots : found[i] THEN [added |-> FALSE, err |-> "nil"]
    ELSE [added |-> added, err |-> addErr]

Unlocked == [w |-> FALSE, r |-> 0]

IdleCall ==
    [pc |-> "idle", iv |-> <<>>, hash |-> 0, added |-> FALSE, addErr |-> "nil",
     found |-> [i \in Slots |-> FALSE], errs |-> [i \in Slots |-> "nil"],
     gpc |-> [i \in Archives |-> "none"], wg |-> 0, i |-> 0,
     must |-> -1, epoch |-> -1]

NoRet ==
    [valid |-> FALSE, iv |-> <<>>, key |-> 0, added |-> FALSE, err |-> "nil",
     must |-> -1, epoch |-> -1, rots |-> 0, pre |-> FALSE, age |-> -1, nd |-> 0,
     fstate |-> "none", phase |-> 0, m |-> 0, k |-> 0, hit |-> FALSE,
     failed |-> FALSE, rot |-> FALSE, acc |-> 0]

NoIV == <<>>
NoWatch == [iv |-> NoIV, age |-> -1, rots |-> 0]
NoHist == [first |-> NoIV, fstate |-> "none", ins |-> {}]
NoScn == [phase |-> 1, orig |-> {}, done |-> {}, extra |-> {}]

\* NewShadowsocksWriter, NewShadowsocksReader: nothing is initialized yet.
NewWriter == [aead |-> FALSE, salt |-> <<>>, counter |-> <<>>]
NewReader ==
    [aead |-> FALSE, salt |-> <<>>, counter |-> <<>>, leftover |-> <<>>,
     box |-> FALSE]

NoWret ==
    [op |-> "none", c |-> 0, n |-> 0, err |-> "nil", box |-> FALSE, pre |-> 0,
     calls |-> 0]
NoRret ==
    [op |-> "none", blen |-> 0, n |-> 0, had |-> 0, rec |-> 0, opened |-> 0,
     took |-> 0, salted |-> FALSE]

NoSres ==
    [op |-> "none", val |-> 0, ok |-> FALSE, err |-> "nil", was |-> FALSE,
     count |-> 0, full |-> FALSE, wrap |-> 0]

\* No Set64 is used on its own.
NoSet64 ==
    /\ s64 = [vals |-> <<>>, count |-> 0, wrap |-> 0]
    /\ kept = {}
    /\ sres = NoSres

\* ----------------------------------------------------------- Pool and Box
BoxIds == 1 .. NumBoxes

\* MakePool and one MakeBox per box: the pool has made no buffer and every
\* box is empty (buf == nil is 0; a buffer is named by the order of its
\* making).
MakeBox == [boxes |-> [b \in BoxIds |-> 0], pool |-> {}, made |-> 0]

\* The buffers Pool.get may hand out: sync.Pool.Get returns any buffer that
\* was put back, or a new one from New.
PoolGets(st) == st.pool \cup (IF st.made < MaxMade THEN {st.made + 1} ELSE {})

\* Pool.get handing out `buf`.
PoolGet(st, buf) ==
    [st EXCEPT !.pool = @ \ {buf}, !.made = IF buf > @ THEN buf ELSE @]

\* Pool.put(buf).  Its length check cannot fail: a box keeps the pointer
\* the pool gave it, and every buffer of the pool has the pool's length.
PoolPut(st, buf) == [st EXCEPT !.pool = @ \cup {buf}]

\* Box.Acquire that asks the pool before it looks at the box.
BoxAcquire_GetFirst(st, b, buf) ==
    [st |-> [PoolGet(st, buf) EXCEPT !.boxes[b] = IF @ # 0 THEN @ ELSE buf],
     panic |-> st.boxes[b] # 0, buf |-> buf]

\* Box.Acquire on box b, the pool handing out `buf` if it is asked.
BoxAcquire(st, b, buf) ==
    IF st.boxes[b] # 0
    THEN [st |-> st, panic |-> TRUE, buf |-> 0]
    ELSE [st |-> [PoolGet(st, buf) EXCEPT !.boxes[b] = buf],
          panic |-> FALSE, buf |-> buf]

\* Box.Release on box b.
BoxRelease(st, b) ==
    IF st.boxes[b] # 0
    THEN [PoolPut(st, st.boxes[b]) EXCEPT !.boxes[b] = 0]
    ELSE st

NoBres ==
    [op |-> "none", b |-> 0, held |-> FALSE, panic |-> FALSE, buf |-> 0,
     pre |-> MakeBox]

\* No box has been used.
NoBox ==
    /\ bx = MakeBox
    /\ bres = NoBres

\* ------------------------------------------------- IVCache (two maps)
\* NewIVCache(capacity): two empty maps.  The keys of a map are a set.
NewMapCache(capacity) == [capacity |-> capacity, active |-> {}, archive |-> {}]

\* IVCache.Add that keeps the old archive when the active map moves.
MapAdd_KeepArchive(c, hash) ==
    IF c.capacity = 0 THEN [c |-> c, added |-> TRUE]
    ELSE IF hash \in c.archive THEN [c |-> c, added |-> FALSE]
    ELSE IF hash \in c.active THEN [c |-> c, added |-> FALSE]
    ELSE IF Cardinality(c.active \cup {hash}) = c.capacity
    THEN [c |-> [c EXCEPT !.archive = @ \cup c.active \cup {hash}, !.active = {}],
          added |-> TRUE]
    ELSE [c |-> [c EXCEPT !.active = @ \cup {hash}], added |-> TRUE]

\* IVCache.Add with the key `hash` of the IV: the cache after the call and
\* the value returned.
MapAdd(c, hash) ==
    IF c.capacity = 0 THEN [c |-> c, added |-> TRUE]
    ELSE IF hash \in c.archive THEN [c |-> c, added |-> FALSE]
    ELSE IF hash \in c.active THEN [c |-> c, added |-> FALSE]
    ELSE IF Cardinality(c.active \cup {hash}) = c.capacity
    THEN [c |-> [c EXCEPT !.archive = c.active \cup {hash}, !.active = {}],
          added |-> TRUE]
    ELSE [c |-> [c EXCEPT !.active = @ \cup {hash}], added |-> TRUE]

NoMapRet ==
    [valid |-> FALSE, iv |-> NoIV, key |-> 0, added |-> FALSE, watched |-> FALSE,
     since |-> {}, archs |-> 0, same |-> FALSE, pre |-> NewMapCache(0)]

\* No IV is watched.
NoMapWatch == [iv |-> NoIV, since |-> {}, archs |-> 0, same |-> FALSE, last |-> NoMapRet]

\* No function is applied on its own.
NoFn == fn = [a |-> 0, b |-> 0, wrap |-> 0, done |-> FALSE, top |-> 0, start |-> 0,
              ctr |-> <<>>, inc |-> <<>>]

\* No IVCache is in use.
NoMap ==
    /\ ivc = NewMapCache(0)
    /\ ivw = NoMapWatch

NewStream ==
    /\ wpos = 0
    /\ sw = NewWriter
    /\ wire = <<>>
    /\ closed = FALSE
    /\ sr = NewReader
    /\ out = <<>>
    /\ rlast = "none"
    /\ wlog = <<>>
    /\ rlog = <<>>
    /\ sink = <<>>
    /\ wret = NoWret
    /\ rret = NoRret
    /\ faults = 0

\* NewIVCache(n): three empty sets of Capacity(n) cells, unlocked, and a
\* fresh hasher.
InitSets ==
    /\ n \in 1 .. MaxRetention
    /\ hasher \in HasherTables
    /\ sets = [i \in Slots |-> i + 1]
    /\ objs = [o \in Objects |-> EmptySet64(Capacity(n))]
    /\ locks = [i \in Slots |-> Unlocked]
    /\ clr = "none"
    /\ rots = 0
    /\ call = [t \in Callers |-> IdleCall]
    /\ ncalls = 0
    /\ ret = NoRet
    /\ retEpoch = [iv \in IVs |-> -1]
    /\ used = {}
    /\ clean = TRUE
    /\ watch = NoWatch
    /\ hist = NoHist
    /\ scn = NoScn
    /\ saved = {}

\* A cache, and no stream in use.
InitCache ==
    /\ InitSets
    /\ NewStream
    /\ plain = <<>>
    /\ ovh = Overhead
    /\ NoSet64
    /\ NoBox
    /\ NoMap
    /\ NoFn

Init == InitCache /\ mode = "conc"

\* IVs presented by the concurrent callers.
ConcIVs == {iv \in IVs : iv[1] <= 1 /\ \A i \in 2 .. IVLen : iv[i] <= iv[1]}
LiveIVs == {iv \in IVs : iv[1] <= 1 /\ \A i \in 2 .. IVLen : iv[i] = 0}
CallerIVs == IF mode \in {"live", "rot"} THEN LiveIVs ELSE ConcIVs

\* The Add calls the concurrent threads make in all.
ConcCalls == IF mode = "rot" THEN MaxRotCalls ELSE MaxCalls

\* Add is entered: hash := c.hasher.Hash(iv); one goroutine per archive is
\* started (wg.Add(1); go func(i)).
Invoke(t, iv) ==
    /\ mode \in {"conc", "live", "rot"}
    /\ mode = "rot" => t <= 2
    /\ call[t].pc = "idle"
    /\ ncalls < ConcCalls
    /\ ncalls' = ncalls + 1
    /\ LET h == Hash(hasher, iv) IN
       /\ call' = [call EXCEPT ![t] =
                     [IdleCall EXCEPT !.pc = "lock0", !.iv = iv, !.hash = h,
                                      !.gpc = [i \in Archives |-> "rlock"],
                                      !.wg = NSets - 2,
                                      !.must = retEpoch[iv]]]
       /\ used' = used \cup {h}
       /\ clean' = (clean /\ h # 0 /\ h \notin used)
    /\ UNCHANGED <<cfgVars, sets, objs, locks, clr, rots, ret, retEpoch, otherVars>>

\* An RLock that does not wait for the writer to leave.
GRLock_NoExcl(t, i) ==
    /\ call[t].gpc[i] = "rlock"
    /\ locks' = [locks EXCEPT ![i].r = @ + 1]
    /\ call' = [call EXCEPT ![t].gpc[i] = "contains"]
    /\ UNCHANGED <<cfgVars, sets, objs, clr, rots, histVars, otherVars>>

\* c.locks[i].RLock() in the archive goroutine.
GRLock(t, i) ==
    /\ call[t].gpc[i] = "rlock"
    /\ ~locks[i].w
    /\ locks' = [locks EXCEPT ![i].r = @ + 1]
    /\ call' = [call EXCEPT ![t].gpc[i] = "contains"]
    /\ UNCHANGED <<cfgVars, sets, objs, clr, rots, histVars, otherVars>>

\* found[i], errs[i] = c.sets[i].Contains(hash)
GContains(t, i) ==
    /\ call[t].gpc[i] = "contains"
    /\ LET r == Set64Contains(objs[sets[i]], call[t].hash, NoFail) IN
       call' = [call EXCEPT ![t].gpc[i] = "runlock",
                            ![t].found[i] = r.ok,
                            ![t].errs[i] = r.err]
    /\ UNCHANGED <<cfgVars, sets, objs, locks, clr, rots, histVars, otherVars>>

\* c.locks[i].RUnlock(); wg.Done()
GRUnlock(t, i) ==
    /\ call[t].gpc[i] = "runlock"
    /\ locks' = [locks EXCEPT ![i].r = @ - 1]
    /\ call' = [call EXCEPT ![t].gpc[i] = "done", ![t].wg = @ - 1]
    /\ UNCHANGED <<cfgVars, sets, objs, clr, rots, histVars, otherVars>>

\* c.locks[0].Lock()
Lock0(t) ==
    /\ call[t].pc = "lock0"
    /\ locks[0] = Unlocked
    /\ locks' = [locks EXCEPT ![0].w = TRUE]
    /\ call' = [call EXCEPT ![t].pc = "add"]
    /\ UNCHANGED <<cfgVars, sets, objs, clr, rots, histVars, otherVars>>

\* added, addErr := c.sets[0].Add(hash)
ActiveAdd(t) ==
    /\ call[t].pc = "add"
    /\ LET r == Set64Add(objs[sets[0]], call[t].hash, NoFail) IN
       /\ objs' = [objs EXCEPT ![sets[0]] = r.s]
       /\ call' = [call EXCEPT ![t].pc = "wait", ![t].added = r.ok,
                               ![t].addErr = r.err,
                               ![t].epoch = IF r.ok THEN rots ELSE -1]
    /\ UNCHANGED <<cfgVars, sets, locks, clr, rots, histVars, otherVars>>

\* wg.Wait(); if added && Count() >= maxOccupancy*Capacity()
Wait(t) ==
    /\ call[t].pc = "wait"
    /\ call[t].wg = 0
    /\ call' = [call EXCEPT ![t].pc =
                   IF call[t].added /\ AtThreshold(objs[sets[0]])
                   THEN "rotlock" ELSE "unlock0",
                 ![t].i = 1]
    /\ UNCHANGED <<cfgVars, sets, objs, locks, clr, rots, histVars, otherVars>>

\* for i := 1; i < N; i++ { c.locks[i].Lock() }
RotLock(t) ==
    /\ call[t].pc = "rotlock"
    /\ locks[call[t].i] = Unlocked
    /\ locks' = [locks EXCEPT ![call[t].i].w = TRUE]
    /\ call' = [call EXCEPT ![t].i = @ + 1,
                            ![t].pc = IF call[t].i + 1 = NSets THEN "permute" ELSE "rotlock"]
    /\ UNCHANGED <<cfgVars, sets, objs, clr, rots, histVars, otherVars>>

\* The cyclic permutation of c.sets.
Permute(t) ==
    /\ call[t].pc = "permute"
    /\ sets' = Rotate(sets)
    /\ rots' = rots + 1
    /\ call' = [call EXCEPT ![t].pc = "rotunlock", ![t].i = 1]
    /\ UNCHANGED <<cfgVars, objs, locks, clr, histVars, otherVars>>

\* for i := 1; i < N-1; i++ { c.locks[i].Unlock() }, then go func() {...}
RotUnlock(t) ==
    /\ call[t].pc = "rotunlock"
    /\ IF call[t].i < NSets - 1
       THEN /\ locks' = [locks EXCEPT ![call[t].i].w = FALSE]
            /\ call' = [call EXCEPT ![t].i = @ + 1]
            /\ clr' = clr
       ELSE /\ clr' = "clear"
            /\ call' = [call EXCEPT ![t].pc = "unlock0"]
            /\ locks' = locks
    /\ UNCHANGED <<cfgVars, sets, objs, rots, histVars, otherVars>>

\* c.locks[0].Unlock() and the return statement.
Unlock0(t) ==
    /\ call[t].pc = "unlock0"
    /\ locks' = [locks EXCEPT ![0].w = FALSE]
    /\ LET r == AddResult(call[t].errs, call[t].found, call[t].added, call[t].addErr) IN
       /\ ret' = [NoRet EXCEPT !.valid = TRUE, !.iv = call[t].iv,
                                !.key = call[t].hash, !.added = r.added,
                                !.err = r.err, !.must = call[t].must,
                                !.epoch = call[t].epoch, !.rots = rots]
       /\ retEpoch' = IF r.added THEN [retEpoch EXCEPT ![call[t].iv] = call[t].epoch]
                      ELSE retEpoch
    /\ call' = [call EXCEPT ![t] = IdleCall]
    /\ UNCHANGED <<cfgVars, sets, objs, clr, rots, ncalls, used, clean, otherVars>>

\* The goroutine started by the rotation without its Clear.
ClearRun_Skip ==
    /\ clr = "clear"
    /\ clr' = "unlock"
    /\ UNCHANGED <<cfgVars, sets, objs, locks, call, rots, histVars, otherVars>>

\* c.sets[N-1].Clear() in the goroutine started by the rotation.
ClearRun ==
    /\ clr = "clear"
    /\ objs' = [objs EXCEPT ![sets[NSets - 1]] = Set64Clear(@)]
    /\ clr' = "unlock"
    /\ UNCHANGED <<cfgVars, sets, locks, call, rots, histVars, otherVars>>

\* The clearing goroutine ending without c.locks[N-1].Unlock().
ClearUnlock_Forgot ==
    /\ clr = "unlock"
    /\ clr' = "none"
    /\ UNCHANGED <<cfgVars, sets, objs, locks, call, rots, histVars, otherVars>>

\* c.locks[N-1].Unlock() in that goroutine.
ClearUnlock ==
    /\ clr = "unlock"
    /\ locks' = [locks EXCEPT ![NSets - 1].w = FALSE]
    /\ clr' = "none"
    /\ UNCHANGED <<cfgVars, sets, objs, call, rots, histVars, otherVars>>

CallerStep(t) ==
    \/ \E iv \in CallerIVs : Invoke(t, iv)
    \/ Lock0(t)
    \/ ActiveAdd(t)
    \/ Wait(t)
    \/ RotLock(t)
    \/ Permute(t)
    \/ RotUnlock(t)
    \/ Unlock0(t)

ScanStep(t, i) ==
    \/ GRLock(t, i)
    \/ GContains(t, i)
    \/ GRUnlock(t, i)

ClearStep ==
    \/ ClearRun
    \/ ClearUnlock

Next ==
    \/ \E t \in Callers : CallerStep(t)
    \/ \E t \in Callers : \E i \in Archives : ScanStep(t, i)
    \/ ClearStep

Spec == Init /\ [][Next]_vars

\* Two of the threads on a cache of the smallest size, which rotates often.
InitRot == InitCache /\ mode = "rot" /\ n = 1 /\ hasher = SeparatingTable

RotSpec == InitRot /\ [][Next]_vars

\* Every goroutine that can take a step eventually takes one (the Go
\* scheduler); which Add calls are made is left to the callers.
CallerRun(t) ==
    \/ Lock0(t)
    \/ ActiveAdd(t)
    \/ Wait(t)
    \/ RotLock(t)
    \/ Permute(t)
    \/ RotUnlock(t)
    \/ Unlock0(t)

Fairness ==
    /\ \A t \in Callers : WF_vars(CallerRun(t))
    /\ \A t \in Callers : \A i \in Archives : WF_vars(ScanStep(t, i))
    /\ WF_vars(ClearStep)

InitLive == InitCache /\ mode = "live" /\ n = 1 /\ hasher = SeparatingTable

LiveSpec == InitLive /\ [][Next]_vars /\ Fairness

\* ------------------------------------------------------ sequential use
\* Hash keys held by the active set and the archives.
Remembered ==
    Members(objs[sets[0]]) \cup UNION {Members(objs[sets[i]]) : i \in Archives}

\* The watched IV: picked when its Add returns true; age counts the Add
\* calls for other IVs since; dropped once n of them were made.
WatchNext(w, iv, added, pick) ==
    IF w.iv = iv /\ iv # NoIV THEN w
    ELSE IF w.iv # NoIV
         THEN (IF w.age + 1 > n - 1 THEN NoWatch ELSE [w EXCEPT !.age = @ + 1])
    ELSE IF added /\ pick THEN [iv |-> iv, age |-> 0, rots |-> rots']
    ELSE NoWatch

\* The earliest inserted IV, the IVs inserted so far (Add returned true) and
\* what happened to the earliest one's key since: "clean" (nothing),
\* "touched" (an Add of it hit an archive and put the key into the active
\* set again), "collided" (an Add of another IV with the same key put the key
\* into the active set), "readded" (an Add of it returned true again).
HistNext(hs, iv, key, added, inserted) ==
    IF hs.first = NoIV
    THEN (IF added THEN [first |-> iv, fstate |-> "clean", ins |-> {iv}] ELSE hs)
    ELSE [first |-> hs.first,
          ins |-> IF added THEN hs.ins \cup {iv} ELSE hs.ins,
          fstate |-> IF hs.fstate = "readded" \/ (iv = hs.first /\ added)
                     THEN "readded"
                     ELSE IF inserted /\ key = Hash(hasher, hs.first)
                     THEN (IF iv = hs.first /\ hs.fstate # "collided"
                           THEN "touched" ELSE "collided")
                     ELSE hs.fstate]

\* The archive scenario: phase 1 inserts n fresh IVs (all added), phase 2
\* re-inserts each of them (none added), phase 3 inserts up to 2n further
\* fresh IVs (all added), phase 4 re-inserts the original IVs.  Phase 0: the
\* call sequence has left the scenario.
ScnOff == [phase |-> 0, orig |-> {}, done |-> {}, extra |-> {}]

ScnNext(sc, iv, added) ==
    IF sc.phase = 1
    THEN IF iv \notin sc.orig /\ added
         THEN [sc EXCEPT !.orig = @ \cup {iv},
                         !.phase = IF Cardinality(sc.orig) + 1 = n THEN 2 ELSE 1]
         ELSE ScnOff
    ELSE IF sc.phase = 2
    THEN IF iv \in sc.orig \ sc.done /\ ~added
         THEN IF sc.done \cup {iv} = sc.orig
              THEN [sc EXCEPT !.done = {}, !.phase = 3]
              ELSE [sc EXCEPT !.done = @ \cup {iv}]
         ELSE ScnOff
    ELSE IF sc.phase = 3
    THEN IF iv \notin (sc.orig \cup sc.extra) /\ added /\ Cardinality(sc.extra) < 2 * n
         THEN [sc EXCEPT !.extra = @ \cup {iv}]
         ELSE IF iv \in sc.orig /\ sc.extra # {}
         THEN [sc EXCEPT !.done = {iv}, !.phase = 4]
         ELSE ScnOff
    ELSE IF sc.phase = 4
    THEN IF iv \in sc.orig \ sc.done
         THEN [sc EXCEPT !.done = @ \cup {iv}]
         ELSE ScnOff
    ELSE ScnOff

\* An insertion that is left out when an archive holds the key.
InsertActive_UnlessArchived(ss, os, h, failAt) ==
    IF \E i \in Archives : Set64Contains(os[ss[i]], h, NoFail).ok
    THEN SetResult(os[ss[0]], TRUE, "nil", 0)
    ELSE Set64Add(os[ss[0]], h, failAt)

\* added, addErr := c.sets[0].Add(hash): the insertion into the active set,
\* whatever the archive scans find.
InsertActive(ss, os, h, failAt) == Set64Add(os[ss[0]], h, failAt)

\* IVs presented by the sequential caller, and the number of its calls.
SeqIVs ==
    {iv \in IVs : iv[1] <= 2 /\ \A i \in 2 .. IVLen : iv[i] <= (IF i = 2 THEN 1 ELSE 0)}

SeqCalls ==
    IF mode \in {"seq", "restart"} THEN MaxSeqCalls
    ELSE IF mode = "hist" THEN MaxHistCalls
    ELSE MaxScenCalls

\* One whole call of set64Cache.Add by the only caller: the archive scans,
\* the insertion into the active set, the rotation if the threshold is
\* reached (the call blocks on the lock of the spare while the previous
\* Clear is running), the start of the clearing goroutine, the result.
SeqAdd(iv, pick) ==
    /\ mode \in {"seq", "hist", "scen", "restart"}
    /\ ncalls < SeqCalls
    /\ mode # "seq" => ~pick
    /\ \E h \in {Hash(hasher, iv)} :
       \E r \in {InsertActive(sets, objs, h, NoFail)} :
       \E scan \in {[i \in Archives |-> Set64Contains(objs[sets[i]], h, NoFail)]} :
       \E found \in {[i \in Slots |-> i \in Archives /\ scan[i].ok]} :
       \E errs \in {[i \in Slots |-> IF i \in Archives THEN scan[i].err ELSE "nil"]} :
       \E res \in {AddResult(errs, found, r.ok, r.err)} :
       \E rot \in {r.ok /\ AtThreshold(r.s)} :
           /\ rot => locks[NSets - 1] = Unlocked
           /\ objs' = [objs EXCEPT ![sets[0]] = r.s]
           /\ sets' = IF rot THEN Rotate(sets) ELSE sets
           /\ rots' = IF rot THEN rots + 1 ELSE rots
           /\ locks' = IF rot THEN [locks EXCEPT ![NSets - 1].w = TRUE] ELSE locks
           /\ clr' = IF rot THEN "clear" ELSE clr
           /\ IF mode \in {"seq", "restart"}
              THEN /\ watch' = WatchNext(watch, iv, res.added, pick)
                   /\ ret' = [NoRet EXCEPT !.valid = TRUE, !.key = h,
                                 !.added = res.added, !.err = res.err,
                                 !.pre = (h \in Remembered),
                                 !.hit = (\E i \in Slots : found[i]),
                                 !.rot = rot,
                                 !.acc = IF mode # "seq" THEN 0
                                         ELSE (IF ret.rot THEN 0 ELSE ret.acc)
                                              + (IF res.added THEN 1 ELSE 0),
                                 !.age = IF watch.iv = iv THEN watch.age ELSE -1,
                                 !.rots = IF watch.iv = iv THEN rots' - watch.rots ELSE 0]
                   /\ UNCHANGED <<hist, scn>>
              ELSE IF mode = "hist"
              THEN /\ hist' = HistNext(hist, iv, h, res.added, r.ok)
                   /\ ret' = [NoRet EXCEPT !.valid = TRUE,
                                 !.added = res.added, !.err = res.err,
                                 !.nd = Cardinality(hist.ins),
                                 !.fstate = IF iv = hist.first THEN hist.fstate
                                            ELSE "none"]
                   /\ UNCHANGED <<watch, scn>>
              ELSE \E sc \in {ScnNext(scn, iv, res.added)} :
                   /\ sc.phase # 0
                   /\ scn' = sc
                   /\ ret' = [NoRet EXCEPT !.valid = TRUE,
                                 !.added = res.added, !.err = res.err,
                                 !.phase = sc.phase, !.m = Cardinality(sc.extra),
                                 !.k = Cardinality(sc.done)]
                   /\ UNCHANGED <<watch, hist>>
    /\ ncalls' = ncalls + 1
    /\ UNCHANGED <<cfgVars, call, retEpoch, used, clean, mode, saved, boxVars, mapVars, fnVars, setVars,
                   streamVars>>

NextSeq ==
    \/ \E iv \in SeqIVs : \E pick \in BOOLEAN : SeqAdd(iv, pick)
    \/ ClearStep

InitSeq == InitCache /\ mode = "seq"

SeqSpec == InitSeq /\ [][NextSeq]_vars

InitHist == InitCache /\ mode = "hist" /\ n = 1

HistSpec == InitHist /\ [][NextSeq]_vars

InitScen == InitCache /\ mode = "scen"

ScenSpec == InitScen /\ [][NextSeq]_vars

\* C38: a call of the cache's Add that returns (false, nil) because an archive
\* holds the key while the active set does not, stores the key in the set
\* that was active, whose count grows by one; the call rotates exactly when
\* that count has reached the threshold.  ret.rot tells that the call
\* rotated, ret.acc the number of calls that returned true since the last
\* rotation before the call.
ArchiveHit ==
    /\ mode = "seq"
    /\ ncalls' = ncalls + 1
    /\ ret'.hit /\ ~ret'.added /\ ret'.err = "nil"
    /\ ~Set64Contains(objs[sets[0]], ret'.key, NoFail).ok

C38_ArchiveHitsReinserted ==
    [][ArchiveHit =>
          /\ Set64Contains(objs'[sets[0]], ret'.key, NoFail).ok
          /\ objs'[sets[0]].count = objs[sets[0]].count + 1
          /\ ret'.rot <=> AtThreshold(objs'[sets[0]])
          /\ ret'.rot <=> sets' = Rotate(sets)]_vars

\* An archive hit rotates, and fewer calls returned true since the rotation
\* before than the set it rotates out counts values.
C38_Witness ==
    /\ mode = "seq"
    /\ ret.valid /\ ret.hit /\ ~ret.added /\ ret.err = "nil"
    /\ ret.rot /\ rots >= 2
    /\ AtThreshold(objs[sets[1]])
    /\ ret.acc < objs[sets[1]].count

\* ------------------------------------------------------------- restart
\* What set64Cache.Add returns for the hash key h when its only caller calls
\* it in the present state.
AddOutcome(h) ==
    LET r == Set64Add(objs[sets[0]], h, NoFail)
        scan == [i \in Archives |-> Set64Contains(objs[sets[i]], h, NoFail)]
        found == [i \in Slots |-> i \in Archives /\ scan[i].ok]
        errs == [i \in Slots |-> IF i \in Archives THEN scan[i].err ELSE "nil"]
    IN  AddResult(errs, found, r.ok, r.err)

\* The cache is at rest and given up, and NewIVFileCache is called over its
\* files in the order of the first construction, with the same hasher: a
\* Set64 is made over each file, and the last one is cleared if it counts a
\* value.
Restart ==
    /\ mode = "restart"
    /\ clr = "none"
    /\ saved' = Remembered
    /\ sets' = [i \in Slots |-> i + 1]
    /\ objs' = [o \in Objects |->
                  LET s == NewSet64(objs[o].vals)
                  IN  IF o = NSets /\ s.count # 0 THEN Set64Clear(s) ELSE s]
    /\ locks' = [i \in Slots |-> Unlocked]
    /\ mode' = "restarted"
    /\ UNCHANGED <<cfgVars, call, clr, rots, histVars, watch, hist, scn, setVars,
                   boxVars, mapVars, fnVars, streamVars>>

NextRestart ==
    \/ \E iv \in SeqIVs : SeqAdd(iv, FALSE)
    \/ ClearStep
    \/ Restart

InitRestart == InitCache /\ mode = "restart"

RestartSpec == InitRestart /\ [][NextRestart]_vars

\* C26: after a restart over the same files in the same order with the same
\* hasher, an Add of an IV whose key the cache remembered before the restart
\* (in its active set or its archive) does not return added = true.
C26_RestartRemembers ==
    mode = "restarted" =>
       \A iv \in SeqIVs :
          Hash(hasher, iv) \in saved => ~AddOutcome(Hash(hasher, iv)).added

\* ------------------------------------------------------ failing stores
\* The accesses of one set operation that may fail: none, the first or the
\* second (a file64 fails in ReadAt or WriteAt).
FailAts == {NoFail, 1, 2}

\* One whole call of set64Cache.Add by the only caller of a cache whose
\* sets are on files: access failAdd of the active set's Add fails, and
\* access failScan[i] of the Contains of archive i.
AddFailing(iv, failAdd, failScan) ==
    /\ mode = "fault"
    /\ ncalls < MaxSeqCalls
    /\ \E h \in {Hash(hasher, iv)} :
       \E r \in {Set64Add(objs[sets[0]], h, failAdd)} :
       \E scan \in {[i \in Archives |-> Set64Contains(objs[sets[i]], h, failScan[i])]} :
       \E found \in {[i \in Slots |-> i \in Archives /\ scan[i].ok]} :
       \E errs \in {[i \in Slots |-> IF i \in Archives THEN scan[i].err ELSE "nil"]} :
       \E res \in {AddResult(errs, found, r.ok, r.err)} :
       \E rot \in {r.ok /\ AtThreshold(r.s)} :
           /\ rot => locks[NSets - 1] = Unlocked
           /\ objs' = [objs EXCEPT ![sets[0]] = r.s]
           /\ sets' = IF rot THEN Rotate(sets) ELSE sets
           /\ rots' = IF rot THEN rots + 1 ELSE rots
           /\ locks' = IF rot THEN [locks EXCEPT ![NSets - 1].w = TRUE] ELSE locks
           /\ clr' = IF rot THEN "clear" ELSE clr
           /\ ret' = [NoRet EXCEPT !.valid = TRUE, !.key = h,
                         !.added = res.added, !.err = res.err,
                         !.hit = (\E i \in Slots : found[i]),
                         !.failed = (r.err # "nil"
                                     \/ \E i \in Archives : scan[i].err # "nil")]
    /\ ncalls' = ncalls + 1
    /\ UNCHANGED <<cfgVars, call, retEpoch, used, clean, mode, watch, hist, scn,
                   saved, boxVars, mapVars, fnVars, setVars, streamVars>>

NextFault ==
    \/ \E iv \in SeqIVs : \E failAdd \in FailAts :
          \E failScan \in [Archives -> FailAts] : AddFailing(iv, failAdd, failScan)
    \/ ClearStep

InitFault == InitCache /\ mode = "fault"

FaultSpec == InitFault /\ [][NextFault]_vars

\* C28: a call of the cache's Add in which the active set's Add or an
\* archive's Contains returned an error returns an error.
C28_ErrorsPropagate == ret.valid /\ ret.failed => ret.err # "nil"

\* ------------------------------------------------------ disabled cache
\* A nil receiver that remembers what it was given.
DisabledAdd_Remember(seen, iv) == [added |-> iv \notin seen, err |-> "nil"]

\* set64Cache.Add on a nil receiver: `return true, nil`, whatever was
\* passed before (`seen`) and whatever is passed now.
DisabledAdd(seen, iv) == [added |-> TRUE, err |-> "nil"]

\* One call c.Add(iv) with c == nil.  hist.ins keeps the IVs passed so far.
NilAdd(iv) ==
    /\ mode = "nil"
    /\ ncalls < MaxSeqCalls
    /\ \E res \in {DisabledAdd(hist.ins, iv)} :
          ret' = [NoRet EXCEPT !.valid = TRUE, !.iv = iv, !.added = res.added,
                               !.err = res.err, !.pre = (iv \in hist.ins)]
    /\ hist' = [hist EXCEPT !.ins = @ \cup {iv}]
    /\ ncalls' = ncalls + 1
    /\ UNCHANGED <<cfgVars, sets, objs, locks, call, clr, rots, retEpoch, used, clean,
                   mode, watch, scn, saved, boxVars, mapVars, fnVars, setVars, streamVars>>

NextNil == \E iv \in SeqIVs : NilAdd(iv)

InitNil == InitCache /\ mode = "nil" /\ n = 1 /\ hasher = SeparatingTable

NilSpec == InitNil /\ [][NextNil]_vars

\* C29: every Add on a nil cache returns (true, nil), also for an IV that
\* was passed before, and no set, lock or counter of a cache is changed.
C29_DisabledCache ==
    /\ ret.valid => ret.added /\ ret.err = "nil"
    /\ objs = [o \in Objects |-> EmptySet64(Capacity(n))]
    /\ sets = [i \in Slots |-> i + 1]
    /\ locks = [i \in Slots |-> Unlocked]
    /\ rots = 0
    /\ clr = "none"

\* An IV was passed for the second time and Add returned (true, nil).
C29_Witness ==
    /\ ret.valid
    /\ ret.pre
    /\ ret.added
    /\ ret.err = "nil"

\* ----------------------------------------------------- map-based IVCache
\* cache := NewIVCache(capacity), in place of the zero value (capacity 0).
NewIVCache(capacity) ==
    /\ mode = "map"
    /\ ivc.capacity = 0
    /\ ivc' = NewMapCache(capacity)
    /\ ivw' = NoMapWatch
    /\ UNCHANGED <<cacheVars, mode, watch, hist, scn, saved, setVars, boxVars, fnVars,
                   streamVars>>

\* What is kept about the watched IV after a call Add(iv) that returned
\* `added` and moved the active map to the archive if `moved`: the watch starts
\* anew when the watched IV is added again or another added IV is picked.
MapWatchNext(w, iv, key, added, moved, pick, last) ==
    IF added /\ (pick \/ iv = w.iv)
    THEN [iv |-> iv, since |-> {}, archs |-> IF moved THEN 1 ELSE 0,
          same |-> FALSE, last |-> last]
    ELSE IF w.iv = NoIV THEN [w EXCEPT !.last = last]
    ELSE [w EXCEPT !.since = IF added THEN @ \cup {iv} ELSE @,
                   !.archs = IF moved /\ @ < 2 THEN @ + 1 ELSE @,
                   !.same = @ \/ (added /\ key = Hash(hasher, w.iv)),
                   !.last = last]

\* One call cache.Add(iv) by the only caller.
MapCacheAdd(iv, pick) ==
    /\ mode = "map"
    /\ \E h \in {Hash(hasher, iv)} :
       \E r \in {MapAdd(ivc, h)} :
       \E last \in {[valid |-> TRUE, iv |-> iv, key |-> h, added |-> r.added,
                     watched |-> (iv = ivw.iv), since |-> ivw.since,
                     archs |-> ivw.archs, same |-> ivw.same, pre |-> ivc]} :
           /\ ivc' = r.c
           /\ ivw' = MapWatchNext(ivw, iv, h, r.added, r.c.archive # ivc.archive,
                                  pick, last)
    /\ UNCHANGED <<cacheVars, mode, watch, hist, scn, saved, setVars, boxVars, fnVars,
                   streamVars>>

NextMap ==
    \/ \E capacity \in 0 .. MaxRetention : NewIVCache(capacity)
    \/ \E iv \in SeqIVs : \E pick \in BOOLEAN : MapCacheAdd(iv, pick)

InitMap == InitCache /\ mode = "map" /\ n = 1

MapSpec == InitMap /\ [][NextMap]_vars

\* What the last Add did to the two maps: the active map that reached
\* `capacity` entries became the archive and a new active map was made;
\* otherwise the archive is the same and the active map has the key if it
\* was added.
MapsMoved ==
    LET l == ivw.last IN
    IF l.added /\ Cardinality(l.pre.active) + 1 = l.pre.capacity
    THEN ivc.archive = l.pre.active \cup {l.key} /\ ivc.active = {}
    ELSE /\ ivc.archive = l.pre.archive
         /\ ivc.active = IF l.added THEN l.pre.active \cup {l.key} ELSE l.pre.active

\* Add returns false for an IV that was added (Add returned true) and since
\* which fewer than `capacity` other distinct IVs were added.
MapRemembers ==
    LET l == ivw.last IN
    l.watched /\ Cardinality(l.since) < l.pre.capacity => ~l.added

\* The active map has been archived twice since the watched IV was added,
\* once 2 * capacity further distinct IVs were added.
MapForgetsBy ==
    ivw.iv # NoIV /\ Cardinality(ivw.since) >= 2 * ivc.capacity => ivw.archs >= 2

\* C30: for a cache of capacity c > 0 used by one caller, Add(iv) returns
\* false if iv is among the last c distinct IVs added; it returns true for
\* an IV after whose addition the active map has been archived twice; that
\* has happened once 2c further distinct IVs were added; and an active map
\* that reaches c entries becomes the archive, the previous archive being
\* discarded.
C30_MapCache ==
    ivw.last.valid /\ ivw.last.pre.capacity > 0 =>
        /\ MapRemembers
        /\ ivw.last.watched /\ ivw.last.archs >= 2 => ivw.last.added
        /\ MapForgetsBy
        /\ MapsMoved

\* C30, amended: the same, but Add returns true for an IV after whose
\* addition the active map has been archived twice only if no other IV with
\* the same hash key was added since.
C30_MapCacheKeys ==
    ivw.last.valid /\ ivw.last.pre.capacity > 0 =>
        /\ MapRemembers
        /\ ivw.last.watched /\ ivw.last.archs >= 2 /\ ~ivw.last.same => ivw.last.added
        /\ MapForgetsBy
        /\ MapsMoved

\* In a cache of capacity 2 the watched IV was added first into an empty
\* active map, three other IVs were added since, none with its key, the
\* active map was archived twice, and Add of the watched IV returned true.
C30_Witness ==
    /\ ivw.last.valid
    /\ ivw.last.pre.capacity = 2
    /\ ivw.last.watched
    /\ Cardinality(ivw.last.since) = 3
    /\ ivw.last.archs = 2
    /\ ~ivw.last.same
    /\ ivw.last.added

\* ------------------------------------------------ claims (sequential use)
\* C2, as stated: in a single-threaded execution without backing-store
\* errors, Add(iv) returns added=true if and only if hash(iv) is, at the time
\* of the call, in neither the active set nor any archive set.
C2_AddedIffAbsent == ret.valid => (ret.added <=> ~ret.pre)

\* C2, amended: in a single-threaded execution without backing-store errors,
\* Add(iv) for an IV whose hash key is not zero returns added=true if and
\* only if the key is, at the time of the call, in neither the active set nor
\* any archive set.  (An IV whose key is zero is never stored: Add returns
\* false with the error "0 is not an allowed value" every time.)
C2_AddedIffAbsentNonzero ==
    (ret.valid /\ ret.key # 0) => (ret.added <=> ~ret.pre)

\* A call returned false for a nonzero key that only an archive held.
C2_Witness ==
    ret.valid /\ ret.key # 0 /\ ret.hit /\ ret.pre /\ ~ret.added /\ ret.err = "nil"

\* C3: for a cache built by NewIVCache(n) and used sequentially, if Add(iv)
\* returned true and at most n-1 Add calls for other IVs have been made
\* since, then Add(iv) returns false, whatever rotations happened in between.
C3_RetentionFloor == (ret.valid /\ ret.age >= 0) => ~ret.added

\* The watched IV is added again after n-1 >= 1 other calls and a rotation.
C3_Witness ==
    ret.valid /\ n >= 2 /\ ret.age = n - 1 /\ ret.rots >= 1 /\ ~ret.added

\* C4, as stated: once at least (N-1)*capacity+1 distinct IVs have been
\* inserted, re-adding the earliest inserted IV returns added=true (hash
\* collisions with the earliest IV set aside).
C4_EvictionBound ==
    (ret.valid /\ ret.fstate \in {"clean", "touched"}
       /\ ret.nd >= (NSets - 1) * Capacity(n) + 1) => ret.added

\* C4, amended: once at least (N-1)*capacity+1 distinct IVs have been
\* inserted, re-adding the earliest inserted IV returns added=true, provided
\* no Add since its insertion put its hash key into the active set again (an
\* Add of it that hit an archive re-inserts it and restarts its retention).
C4_EvictionBoundUntouched ==
    (ret.valid /\ ret.fstate = "clean"
       /\ ret.nd >= (NSets - 1) * Capacity(n) + 1) => ret.added

\* The earliest IV is re-added after that many distinct insertions.
C4_Witness ==
    /\ ret.valid /\ ret.fstate = "clean" /\ ret.added
    /\ ret.nd >= (NSets - 1) * Capacity(n) + 1

\* C5, as stated: after inserting n fresh IVs, re-inserting them (all
\* added=false) and inserting 2n further fresh IVs (all added=true),
\* re-inserting each of the original n IVs returns added=false.
C5_ArchiveSurvival ==
    (ret.valid /\ ret.phase = 4 /\ ret.m = 2 * n) => ~ret.added

\* C5, amended: after inserting n fresh IVs, re-inserting them (all
\* added=false) and inserting m >= 1 further fresh IVs (all added=true), the
\* k-th original IV re-inserted returns added=false provided m + k <= n + 2.
\* (The first further IV rotates the originals into the archive; n+1
\* insertions into the new active set, archive hits included, rotate them
\* into the spare.)
C5_ArchiveSurvivalFirstRotation ==
    (ret.valid /\ ret.phase = 4 /\ ret.m + ret.k <= n + 2) => ~ret.added

\* The last original IV is re-inserted at the limit m + k = n + 2.
C5_Witness ==
    /\ ret.valid /\ ret.phase = 4 /\ n >= 2 /\ ret.k = n
    /\ ret.m + ret.k = n + 2 /\ ~ret.added

\* ------------------------------------------------- data accesses (cache)
\* The unsynchronised memory access a goroutine performs in its next step:
\* a slot of c.sets or a Set64 object, read or written.
Rd(kind, id) == [kind |-> kind, id |-> id, w |-> FALSE]
Wr(kind, id) == [kind |-> kind, id |-> id, w |-> TRUE]

\* The caller: c.sets[0].Add(hash); c.sets[0].Count() after wg.Wait();
\* the copy over c.sets.
CallerAcc(t) ==
    IF call[t].pc = "add" THEN {Rd("slot", 0), Wr("obj", sets[0])}
    ELSE IF call[t].pc = "wait" /\ call[t].wg = 0 /\ call[t].added
         THEN {Rd("slot", 0), Rd("obj", sets[0])}
    ELSE IF call[t].pc = "permute" THEN {Wr("slot", i) : i \in Slots}
    ELSE {}

\* The archive goroutine: c.sets[i].Contains(hash)
ScanAcc(t, i) ==
    IF call[t].gpc[i] = "contains" THEN {Rd("slot", i), Rd("obj", sets[i])}
    ELSE {}

\* The clearing goroutine: c.sets[N-1].Clear()
ClearAcc ==
    IF clr = "clear" THEN {Rd("slot", NSets - 1), Wr("obj", sets[NSets - 1])}
    ELSE {}

Procs == {<<"caller", t, 0>> : t \in Callers}
         \cup {<<"scan", t, i>> : t \in Callers, i \in Archives}
         \cup {<<"clear", 0, 0>>}

Acc(p) ==
    IF p[1] = "caller" THEN CallerAcc(p[2])
    ELSE IF p[1] = "scan" THEN ScanAcc(p[2], p[3])
    ELSE ClearAcc

Conflict(a, b) == a.kind = b.kind /\ a.id = b.id /\ (a.w \/ b.w)

\* ------------------------------------------------------------------ claims

\* C1: if Add(iv) has returned added=true and a later Add(iv) is invoked
\* after that return, the later call returns added=false, unless the set
\* holding iv's key has been rotated into the spare slot (NSets-1 rotations
\* since the insertion).
C1_HappensBefore ==
    (ret.valid /\ ret.must >= 0 /\ ret.added) => (ret.rots - ret.must >= NSets - 1)

\* C6: while every Add so far had a nonzero hash key that no other Add had,
\* every Add that returns returns (added=true, nil).
C6_NoSpuriousDuplicates ==
    (clean /\ ret.valid) => (ret.added /\ ret.err = "nil")

\* An Add of a fresh key has inserted into the new active set after a
\* rotation and returned while the spare is still being cleared.
C6_Witness ==
    clean /\ ret.valid /\ ret.added /\ ret.epoch >= 1 /\ clr = "clear"

\* C7: under fair scheduling every Add call eventually returns.
C7_EveryCallReturns ==
    \A t \in Callers : (call[t].pc # "idle") ~> (call[t].pc = "idle")

\* A rotation waits for the lock of the spare while the previous Clear of
\* the spare is still running.
C7_Witness ==
    \E t \in Callers :
        /\ call[t].pc = "rotlock"
        /\ call[t].i = NSets - 1
        /\ clr = "clear"
        /\ rots >= 1

\* C8: no two goroutines are about to access the same slot of c.sets or the
\* same Set64 object when one of the two accesses is a write.
C8_RaceFree ==
    \A p \in Procs : \A q \in Procs :
        p # q => \A a \in Acc(p) : \A b \in Acc(q) : ~Conflict(a, b)

\* An archive scan, an insertion into the active set and the clearing of
\* the spare are in progress at the same time.
C8_Witness ==
    /\ clr = "clear"
    /\ \E t \in Callers : call[t].pc = "add"
    /\ \E t \in Callers : \E i \in Archives : call[t].gpc[i] = "contains"

\* The count of set s has reached maxOccupancy * capacity.
Reached(s, count) == count * maxOccupancyDen >= maxOccupancyNum * Len(s.vals)

\* C31: while no Add holds the lock of the active set, its count is below
\* maxOccupancy * capacity; a call rotates exactly when its own insertion
\* made the count of the active set reach that threshold; and the Add on
\* the active set never fails because the set is full.
C31_Occupancy ==
    LET a == objs[sets[0]] IN
    /\ locks[0] = Unlocked => ~Reached(a, a.count)
    /\ \A t \in Callers :
          /\ call[t].pc \in {"rotlock", "permute"} =>
                /\ call[t].added
                /\ Reached(a, a.count)
                /\ ~Reached(a, a.count - 1)
          /\ call[t].pc \in {"unlock0", "rotunlock"} => ~Reached(a, a.count)
          /\ call[t].addErr # "full"
    /\ Reached(a, a.count) =>
          \E t \in Callers : call[t].pc \in {"wait", "rotlock", "permute"} /\ call[t].added
    /\ ret.err # "full"

\* A second rotation is about to permute the sets: the insertion of the
\* rotating call made the new active set reach the threshold.
C31_Witness ==
    \E t \in Callers :
        /\ call[t].pc = "permute"
        /\ rots >= 1
        /\ call[t].added
        /\ objs[sets[0]].count = Len(objs[sets[0]].vals)

\* C32: the set a rotation promotes is empty (count 0, wrap 0, every cell
\* zero), and no call is past the lock of the spare while the Clear started
\* by the previous rotation has not finished and unlocked it.
C32_CleanSpare ==
    /\ \A t \in Callers :
          /\ call[t].pc = "permute" =>
                /\ clr = "none"
                /\ objs[sets[NSets - 1]] = EmptySet64(Len(objs[sets[NSets - 1]].vals))
          /\ call[t].pc = "rotunlock" =>
                objs[sets[0]] = EmptySet64(Len(objs[sets[0]].vals))
    /\ clr # "none" => locks[NSets - 1].w

\* The third rotation is about to promote the set that was the first
\* active set, which held keys until the Clear after the second rotation.
C32_Witness ==
    \E t \in Callers :
        /\ call[t].pc = "permute"
        /\ rots = NSets - 1
        /\ sets[NSets - 1] = 1

\* A step that changes c.sets moves the spare to slot 0 and every other set
\* one slot back, and changes no set, lock or pending Clear.
RotationStep ==
    sets' # sets =>
        /\ sets'[0] = sets[NSets - 1]
        /\ \A i \in 0 .. (NSets - 2) : sets'[i + 1] = sets[i]
        /\ rots' = rots + 1
        /\ UNCHANGED <<objs, locks, clr>>

\* A step that changes a set either inserts into the active set or clears
\* the set in slot N-1.
ObjectStep ==
    \A o \in Objects :
        objs'[o] # objs[o] =>
            \/ o = sets[0] /\ locks[0].w /\ sets' = sets
            \/ /\ o = sets[NSets - 1]
               /\ clr = "clear"
               /\ sets' = sets
               /\ objs'[o] = EmptySet64(Len(objs[o].vals))

\* C33: a rotation is a cyclic permutation of the slots that changes nothing
\* else, so the slots always hold pairwise distinct sets, the old active set
\* arrives in slot 1 with its contents, and only the set in slot N-1 is
\* cleared.
C33_CyclicRotation ==
    /\ [](\A i \in Slots : \A j \in Slots : i # j => sets[i] # sets[j])
    /\ [][RotationStep /\ ObjectStep]_vars

\* After the third rotation the set that was active is the newest archive
\* and is full, and the first set is active again.
C33_Witness ==
    \E t \in Callers :
        /\ call[t].pc = "rotunlock"
        /\ rots = NSets
        /\ sets[0] = 1
        /\ objs[sets[1]].count = Len(objs[sets[1]].vals)

\* The value the call of thread t is about to return.
Returning(t) == AddResult(call[t].errs, call[t].found, call[t].added, call[t].addErr)

\* C37: of the Add calls for one IV that overlap in time, the IV not having
\* been added before, at most one returns added=true: a call that was
\* invoked before an Add of its IV returned true does not return true
\* itself.  Two insertions NSets-1 or more rotations apart are left out,
\* the first key having been cleared by then.
C37_AtMostOneAdded ==
    \A t \in Callers :
        (/\ call[t].pc = "unlock0"
         /\ call[t].must = -1
         /\ retEpoch[call[t].iv] >= 0
         /\ call[t].epoch - retEpoch[call[t].iv] < NSets - 1)
        => ~Returning(t).added

\* ------------------------------------------------------ Set64 on its own
\* The values given to a Set64 used on its own: 0, the lowest values (all
\* of start index 0), the highest (all of the last start index) and one in
\* the middle.
SetVals ==
    {0} \cup (1 .. MaxSetLen) \cup ((WordMod - MaxSetLen) .. (WordMod - 1))
        \cup {WordMod \div 2}

\* s.Add(val) with a backing store that does not fail.
SetAdd(val) ==
    /\ mode \in {"set", "reopen", "setfault"}
    /\ \E r \in {Set64Add(s64, val, NoFail)} :
          /\ s64' = r.s
          /\ kept' = IF r.ok THEN kept \cup {val} ELSE kept
          /\ sres' = [op |-> "Add", val |-> val, ok |-> r.ok, err |-> r.err,
                      was |-> val \in kept, count |-> s64.count,
                      full |-> s64.count = Len(s64.vals), wrap |-> s64.wrap]
    /\ UNCHANGED <<cacheVars, mode, watch, hist, scn, saved, boxVars, mapVars, fnVars, streamVars>>

\* s.Contains(val)
SetContains(val) ==
    /\ mode \in {"set", "reopen", "reopened", "setfault", "setfailed"}
    /\ \E r \in {Set64Contains(s64, val, NoFail)} :
          sres' = [op |-> "Contains", val |-> val, ok |-> r.ok, err |-> r.err,
                   was |-> val \in kept, count |-> s64.count,
                   full |-> s64.count = Len(s64.vals), wrap |-> s64.wrap]
    /\ UNCHANGED <<s64, kept, cacheVars, mode, watch, hist, scn, saved, boxVars, mapVars, fnVars, streamVars>>

\* s.Clear()
SetClear ==
    /\ mode = "set"
    /\ s64' = Set64Clear(s64)
    /\ kept' = {}
    /\ sres' = [NoSres EXCEPT !.op = "Clear", !.count = s64.count,
                              !.full = s64.count = Len(s64.vals),
                              !.wrap = s64.wrap]
    /\ UNCHANGED <<cacheVars, mode, watch, hist, scn, saved, boxVars, mapVars, fnVars, streamVars>>

NextSet ==
    \/ \E val \in SetVals : SetAdd(val)
    \/ \E val \in SetVals : SetContains(val)
    \/ SetClear

\* NewSet64 over a zeroed slice of 1 to MaxSetLen cells.
InitSet ==
    /\ InitSets
    /\ n = 1
    /\ hasher = SeparatingTable
    /\ mode = "set"
    /\ NewStream
    /\ plain = <<>>
    /\ ovh = Overhead
    /\ \E len \in 1 .. MaxSetLen : s64 = EmptySet64(len)
    /\ kept = {}
    /\ sres = NoSres
    /\ NoBox
    /\ NoMap
    /\ NoFn

SetSpec == InitSet /\ [][NextSet]_vars

\* The cells of s read from vals[wrap] round to vals[wrap-1], zeros left
\* out.
RECURSIVE NonZero(_)
NonZero(q) ==
    IF Len(q) = 0 THEN <<>>
    ELSE (IF q[1] = 0 THEN <<>> ELSE <<q[1]>>) \o NonZero(Tail(q))

Cyclic(s) ==
    NonZero(SubSeq(s.vals, s.wrap + 1, Len(s.vals)) \o SubSeq(s.vals, 1, s.wrap))

\* C18: whatever Adds and Clears were made on a Set64 whose backing store
\* does not fail, Contains(v) returns true, without error, for exactly the
\* nonzero values whose Add returned true since the last Clear.
C18_ExactMembership ==
    mode = "set" =>
       /\ \A v \in SetVals \ {0} :
             \E r \in {Set64Contains(s64, v, NoFail)} :
                r.err = "nil" /\ r.ok = (v \in kept)
       /\ (sres.op = "Contains" /\ sres.val # 0) =>
             sres.err = "nil" /\ sres.ok = (sres.val \in kept)
       /\ Members(s64) = kept

\* Every cell holds one of the highest values, the last of which ran off
\* the end of the table and moved wrap; all are found.
C18_Witness ==
    /\ mode = "set"
    /\ Len(s64.vals) = MaxSetLen
    /\ kept = (WordMod - MaxSetLen) .. (WordMod - 1)
    /\ s64.wrap = MaxSetLen - 1
    /\ sres.op = "Contains" /\ sres.ok /\ sres.val = WordMod - MaxSetLen

\* C19: an Add of a nonzero value to a set that is not full returns true
\* if the value was not in the set and false if it was, without error;
\* Count is one more after an Add that returned true and the same after
\* one that returned false, which an Add of a value in the set always is.
C19_AddResult ==
    (mode = "set" /\ sres.op = "Add" /\ sres.val # 0) =>
       /\ ~sres.full => sres.err = "nil" /\ sres.ok = ~sres.was
       /\ sres.was => ~sres.ok
       /\ s64.count = sres.count + (IF sres.ok THEN 1 ELSE 0)
       /\ s64.count = Cardinality(kept)

\* An Add of a value that an earlier Add had put in the set returned false
\* and the count stayed at two.
C19_Witness ==
    /\ mode = "set"
    /\ sres.op = "Add" /\ sres.was /\ ~sres.ok /\ sres.err = "nil"
    /\ sres.count = 2 /\ s64.count = 2
    /\ s64.wrap >= 1

\* C20: whatever Adds and Clears were made, wrap is at least 0 and less
\* than the capacity and the cells read from vals[wrap] round to
\* vals[wrap-1], zeros left out, are strictly ascending.
C20_Ordered ==
    mode = "set" =>
       /\ s64.wrap >= 0 /\ s64.wrap < Len(s64.vals)
       /\ \A i \in 1 .. (Len(Cyclic(s64)) - 1) : Cyclic(s64)[i] < Cyclic(s64)[i + 1]

\* A full table whose lowest value is in the last cell and whose other
\* values lie before wrap.
C20_Witness ==
    /\ mode = "set"
    /\ s64.count = MaxSetLen
    /\ s64.wrap = MaxSetLen - 1
    /\ s64.vals[1] > s64.vals[MaxSetLen]

\* The number of nonzero cells of the backing store.
NonzeroCells(s) == Cardinality({i \in 1 .. Len(s.vals) : s.vals[i] # 0})

\* C21: whatever Adds and Clears were made on a Set64 whose backing store
\* does not fail, count is the number of nonzero cells of the backing store
\* and is at most the capacity.
C21_CountIsNonzeroCells ==
    mode = "set" =>
       /\ s64.count = NonzeroCells(s64)
       /\ s64.count <= Len(s64.vals)

\* An Add has filled the last empty cell of a table whose values ran off
\* the end: count equals the capacity.
C21_Witness ==
    /\ mode = "set"
    /\ sres.op = "Add" /\ sres.ok
    /\ sres.count = MaxSetLen - 1
    /\ s64.count = MaxSetLen
    /\ NonzeroCells(s64) = MaxSetLen
    /\ s64.wrap >= 1

\* C22: on a Set64 whose backing store does not fail, an Add of a nonzero
\* value that is not in the set succeeds (true, no error) while fewer values
\* than the capacity are in it, whatever the order of the values; an Add to
\* a set that holds as many values as its capacity returns the error
\* "Set is full" and changes nothing: the values added are still contained
\* and no other value is.
C22_Fill ==
    /\ [](mode = "set" =>
            /\ (sres.op = "Add" /\ sres.val # 0 /\ ~sres.full /\ ~sres.was) =>
                   sres.ok /\ sres.err = "nil"
            /\ (sres.op = "Add" /\ sres.val # 0 /\ sres.full) =>
                   ~sres.ok /\ sres.err = "full"
            /\ s64.count = Len(s64.vals) =>
                   /\ Cardinality(kept) = Len(s64.vals)
                   /\ \A v \in SetVals \ {0} :
                         \E r \in {Set64Contains(s64, v, NoFail)} :
                            r.err = "nil" /\ r.ok = (v \in kept))
    /\ [][(mode = "set" /\ sres'.op = "Add" /\ sres'.val # 0 /\ sres'.full) =>
              (s64' = s64 /\ kept' = kept)]_vars

\* A table was filled with the highest values, the last of which moved
\* wrap, and an Add of a further value was refused.
C22_Witness ==
    /\ mode = "set"
    /\ s64.count = MaxSetLen
    /\ Len(s64.vals) = MaxSetLen
    /\ s64.wrap >= 1
    /\ sres.op = "Add" /\ sres.full /\ sres.err = "full"
    /\ sres.val \notin kept /\ sres.val # 0

\* C23: in every state of a Set64, Contains(0) and Add(0) return an error
\* and leave the cells, count and wrap as they were.
C23_ZeroRejected ==
    /\ [](mode = "set" =>
            /\ (sres.op \in {"Add", "Contains"} /\ sres.val = 0) =>
                   sres.err = "zero" /\ ~sres.ok
            /\ \E r \in {Set64Add(s64, 0, NoFail)} : r.err # "nil" /\ r.s = s64
            /\ \E r \in {Set64Contains(s64, 0, NoFail)} : r.err # "nil" /\ r.s = s64)
    /\ [][(mode = "set" /\ sres'.op \in {"Add", "Contains"} /\ sres'.val = 0) =>
              (s64' = s64 /\ kept' = kept)]_vars

\* Contains(0) was refused by a full set whose values ran off the end of
\* the table.
C23_Witness ==
    /\ mode = "set"
    /\ sres.op = "Contains" /\ sres.val = 0 /\ sres.err = "zero"
    /\ sres.full
    /\ s64.wrap >= 1

\* C24: after a Clear of any set, a full one with wrap > 0 included, every
\* cell is zero, Count() is 0 and wrap is 0, which is the state NewSet64
\* gives over a zeroed store of that length: Contains is false for every
\* value and every Add does what it does on a fresh set.
C24_ClearResets ==
    (mode = "set" /\ sres.op = "Clear") =>
       /\ \A i \in 1 .. Len(s64.vals) : s64.vals[i] = 0
       /\ s64.count = 0
       /\ s64.wrap = 0
       /\ s64 = EmptySet64(Len(s64.vals))
       /\ kept = {}
       /\ \A v \in SetVals \ {0} :
             /\ \E r \in {Set64Contains(s64, v, NoFail)} : r.err = "nil" /\ ~r.ok
             /\ Set64Add(s64, v, NoFail) = Set64Add(EmptySet64(Len(s64.vals)), v, NoFail)

\* A full set whose values had run off the end of the table was cleared.
C24_Witness ==
    /\ mode = "set"
    /\ sres.op = "Clear"
    /\ sres.full /\ sres.count = MaxSetLen
    /\ sres.wrap >= 1
    /\ s64.count = 0

\* ------------------------------------------------------- Set64 reopened
\* NewSet64 over the backing store of s64: the set is used no more and the
\* new one is probed in its place.
SetReopen ==
    /\ mode = "reopen"
    /\ s64' = NewSet64(s64.vals)
    /\ sres' = [NoSres EXCEPT !.op = "New", !.count = s64.count,
                              !.full = s64.count = Len(s64.vals),
                              !.wrap = s64.wrap]
    /\ mode' = "reopened"
    /\ UNCHANGED <<kept, cacheVars, watch, hist, scn, saved, boxVars, mapVars, fnVars, streamVars>>

\* A Set64 that takes Adds and is then made anew over its backing store.
NextReopen ==
    \/ \E val \in SetVals : SetAdd(val)
    \/ \E val \in SetVals : SetContains(val)
    \/ SetReopen

InitReopen ==
    /\ InitSets
    /\ n = 1
    /\ hasher = SeparatingTable
    /\ mode = "reopen"
    /\ NewStream
    /\ plain = <<>>
    /\ ovh = Overhead
    /\ \E len \in 1 .. MaxSetLen : s64 = EmptySet64(len)
    /\ kept = {}
    /\ sres = NoSres
    /\ NoBox
    /\ NoMap
    /\ NoFn

ReopenSpec == InitReopen /\ [][NextReopen]_vars

\* The set as it was before NewSet64 was called over its store.
Before == [vals |-> s64.vals, count |-> sres.count, wrap |-> sres.wrap]

\* C25: the Set64 that NewSet64 makes over the backing store of a set
\* reached by Adds has the count and the wrap of that set, and its Contains
\* answers for every key as the Contains of that set did.
C25_ReopenRoundTrip ==
    mode = "reopened" =>
       /\ s64.count = Before.count
       /\ s64.wrap = Before.wrap
       /\ \A v \in SetVals \ {0} :
             Set64Contains(s64, v, NoFail).ok = Set64Contains(Before, v, NoFail).ok
       /\ (sres.op = "Contains" /\ sres.val # 0) => sres.ok = (sres.val \in kept)

\* The index (from 0) of the largest and of the smallest nonzero value of a
\* store, -1 if every cell is zero.
LargestIndex(vals) ==
    IF \A i \in 1 .. Len(vals) : vals[i] = 0 THEN -1
    ELSE (CHOOSE i \in 1 .. Len(vals) :
             vals[i] # 0 /\ \A j \in 1 .. Len(vals) : vals[j] <= vals[i]) - 1

SmallestIndex(vals) ==
    IF \A i \in 1 .. Len(vals) : vals[i] = 0 THEN -1
    ELSE (CHOOSE i \in 1 .. Len(vals) :
             vals[i] # 0 /\ \A j \in 1 .. Len(vals) : vals[j] # 0 => vals[i] <= vals[j]) - 1

\* C34: over a populated store NewSet64 makes a set whose count is the
\* number of nonzero cells and whose wrap is the index of the largest value
\* plus one if the smallest nonzero value lies at a greater index than the
\* largest, else 0; its length is the number of cells of the store.
C34_Recovery ==
    (mode = "reopened" /\ sres.op = "New") =>
       /\ Len(s64.vals) = Len(Before.vals)
       /\ s64.count = NonzeroCells(s64)
       /\ s64.wrap = IF SmallestIndex(s64.vals) > LargestIndex(s64.vals)
                     THEN LargestIndex(s64.vals) + 1
                     ELSE 0

\* ------------------------------------------------ topmul and start alone
\* The lengths an int64 can hold, at the word width of the model.
Lengths == 1 .. (WordMod \div 2 - 1)

\* i := topmul(s.length, val) and s.start(val) for a set of fn.a cells with
\* the wrap point fn.wrap.
ApplyStart ==
    /\ mode = "mul"
    /\ ~fn.done
    /\ fn' = [fn EXCEPT !.done = TRUE,
                        !.top = topmul(fn.a, fn.b),
                        !.start = start([vals |-> [i \in 1 .. fn.a |-> 0], count |-> 0,
                                         wrap |-> fn.wrap], fn.b)]
    /\ UNCHANGED <<cacheVars, mode, watch, hist, scn, saved, setVars, boxVars, mapVars,
                   streamVars>>

NextMul == ApplyStart

InitMul ==
    /\ InitSets
    /\ n = 1
    /\ hasher = SeparatingTable
    /\ mode = "mul"
    /\ NewStream
    /\ plain = <<>>
    /\ ovh = Overhead
    /\ NoSet64
    /\ NoBox
    /\ NoMap
    /\ \E a \in Lengths : \E b \in Keys : \E wrap \in 0 .. a :
          fn = [a |-> a, b |-> b, wrap |-> wrap, done |-> FALSE, top |-> 0,
                start |-> 0, ctr |-> <<>>, inc |-> <<>>]

MulSpec == InitMul /\ [][NextMul]_vars

\* C35: topmul(a, b) is the integer part of a * b / 2^WordBits, does not
\* decrease when b grows, and lies in 0 .. a - 1; start(v) is the larger of
\* topmul(length, v) and wrap.
C35_StartIndex ==
    fn.done =>
       /\ fn.top = (fn.a * fn.b) \div WordMod
       /\ fn.b > 0 => topmul(fn.a, fn.b - 1) <= fn.top
       /\ fn.top >= 0
       /\ fn.top < fn.a
       /\ fn.start = IF fn.top >= fn.wrap THEN fn.top ELSE fn.wrap

\* topmul was applied to a length and a key whose low half-words carry into
\* the result, and start returned the wrap point.
C35_Witness ==
    /\ fn.done
    /\ fn.a >= HalfMod
    /\ fn.top # topmul_NoCarry(fn.a, fn.b)
    /\ fn.wrap > fn.top
    /\ fn.start = fn.wrap

\* ------------------------------------------------------- boxes of a pool
\* b.Acquire() by the owner of box b.  A panic is recorded and leaves the
\* owner free to go on (a deferred Release runs after it).
Acquire(b) ==
    /\ mode = "box"
    /\ \E buf \in PoolGets(bx) :
          \E r \in {BoxAcquire(bx, b, buf)} :
             /\ bx' = r.st
             /\ bres' = [op |-> "Acquire", b |-> b, held |-> bx.boxes[b] # 0,
                         panic |-> r.panic, buf |-> r.buf, pre |-> bx]
    /\ UNCHANGED <<cacheVars, mode, watch, hist, scn, saved, setVars, mapVars, fnVars,
                   streamVars>>

\* b.Release() by the owner of box b.
Release(b) ==
    /\ mode = "box"
    /\ bx' = BoxRelease(bx, b)
    /\ bres' = [op |-> "Release", b |-> b, held |-> bx.boxes[b] # 0,
                panic |-> FALSE, buf |-> bx.boxes[b], pre |-> bx]
    /\ UNCHANGED <<cacheVars, mode, watch, hist, scn, saved, setVars, mapVars, fnVars,
                   streamVars>>

NextBox ==
    \/ \E b \in BoxIds : Acquire(b)
    \/ \E b \in BoxIds : Release(b)

InitBox == InitCache /\ mode = "box" /\ n = 1 /\ hasher = SeparatingTable

BoxSpec == InitBox /\ [][NextBox]_vars

\* The buffers the boxes hold.
Held(st) == {st.boxes[b] : b \in BoxIds} \ {0}

\* C27: a box holds no buffer or one, which no other box holds and which is
\* not in the pool; Acquire on a box that holds a buffer panics and takes
\* nothing from the pool; Acquire on an empty box puts in it one buffer the
\* pool hands out; Release on a box that holds a buffer puts the buffer back
\* and empties the box; Release on an empty box changes nothing; and in every
\* state a second Release leaves what the first one left.
C27_BoxContract ==
    /\ \A b \in BoxIds : bx.boxes[b] \in 0 .. bx.made
    /\ \A b, c \in BoxIds : b # c /\ bx.boxes[b] # 0 => bx.boxes[b] # bx.boxes[c]
    /\ Held(bx) \cap bx.pool = {}
    /\ Held(bx) \cup bx.pool \subseteq 1 .. bx.made
    /\ bres.op = "Acquire" /\ bres.held =>
          /\ bres.panic
          /\ bx = bres.pre
    /\ bres.op = "Acquire" /\ ~bres.held =>
          /\ ~bres.panic
          /\ bres.buf \in PoolGets(bres.pre)
          /\ bx.boxes = [bres.pre.boxes EXCEPT ![bres.b] = bres.buf]
          /\ bx.pool = bres.pre.pool \ {bres.buf}
    /\ bres.op = "Release" /\ bres.held =>
          /\ bx.boxes = [bres.pre.boxes EXCEPT ![bres.b] = 0]
          /\ bx.pool = bres.pre.pool \cup {bres.pre.boxes[bres.b]}
          /\ bx.made = bres.pre.made
    /\ bres.op = "Release" /\ ~bres.held => bx = bres.pre
    /\ \A b \in BoxIds :
          BoxRelease(BoxRelease(bx, b), b) = BoxRelease(bx, b)

\* An Acquire on a box that holds a buffer has panicked while the pool had a
\* buffer to hand out, and the other box is empty.
C27_Witness ==
    /\ bres.op = "Acquire"
    /\ bres.held
    /\ bres.panic
    /\ bx.pool # {}
    /\ \E b \in BoxIds : bx.boxes[b] = 0

\* ------------------------------------------------------- stream framing
ByteMod == 2 ^ ByteBits
payloadSizeMask == 2 ^ PayloadBits - 1
SaltVals == {0, 1}

Min(a, b) == IF a <= b THEN a ELSE b

\* A byte on the wire is either a raw byte of value v or the j-th byte of
\* the output of a Seal; the fields that do not apply are empty.
Raw(v) ==
    [kind |-> "raw", key |-> <<>>, nonce |-> <<>>, pt |-> <<>>, j |-> 0, v |-> v]

Salts == [1 .. SaltSize -> {Raw(v) : v \in SaltVals}]

\* aead.Seal(dst, nonce, plaintext, nil) with the key that ssCipher derives
\* from the salt: Len(plaintext) + aead.Overhead() bytes.
Seal(key, nonce, pt) ==
    [j \in 1 .. (Len(pt) + ovh) |->
        [kind |-> "ct", key |-> key, nonce |-> nonce, pt |-> pt, j |-> j, v |-> 0]]

\* aead.Open(dst, nonce, buf, nil) succeeds only on the whole output of a
\* Seal made with the same key and the same nonce.
Opens(key, nonce, buf) ==
    /\ Len(buf) >= 1
    /\ buf[1].kind = "ct"
    /\ buf = Seal(key, nonce, buf[1].pt)

\* A counter that never carries into the next byte.
increment_NoCarry(b) ==
    IF Len(b) = 0 THEN b ELSE [b EXCEPT ![1] = (@ + 1) % ByteMod]

\* increment: for i := range b { b[i]++; if b[i] != 0 { return } }
RECURSIVE incrementFrom(_, _)
incrementFrom(b, i) ==
    IF i > Len(b) THEN b
    ELSE LET c == [b EXCEPT ![i] = (@ + 1) % ByteMod]
         IN  IF c[i] # 0 THEN c ELSE incrementFrom(c, i + 1)

\* A counter that stays at its largest value.
increment_Stuck(b) ==
    IF \A i \in 1 .. Len(b) : b[i] = ByteMod - 1 THEN b ELSE incrementFrom(b, 1)

increment(b) == incrementFrom(b, 1)

\* The little-endian number a counter holds.
RECURSIVE CounterValue(_)
CounterValue(b) ==
    IF Len(b) = 0 THEN 0 ELSE b[1] + ByteMod * CounterValue(Tail(b))

ZeroCounter == [i \in 1 .. NonceSize |-> 0]

\* The ways a call ends without returning: Box.Acquire panics on a box that
\* holds a buffer, Seal and Open panic on a nonce of the wrong length.
Panics == {"panic", "nonce panic"}

\* sw.writer.Write(buf): all of buf reaches the sink, or, when the call
\* fails, only its first `part` bytes (fewer than Len(buf)).
SinkWrite(buf, ok, part) ==
    [sent |-> IF ok THEN buf ELSE SubSeq(buf, 1, Min(part, Len(buf) - 1)),
     calls |-> <<[buf |-> buf, ok |-> ok]>>]

\* An init that makes and writes a salt at every call.
WriterInit_EveryCall(w, salt, ok, part) ==
    [w |-> [aead |-> TRUE, salt |-> salt,
            counter |-> IF w.aead THEN w.counter ELSE ZeroCounter],
     sent |-> salt, calls |-> <<[buf |-> salt, ok |-> TRUE]>>, err |-> "nil"]

\* shadowsocksWriter.init: on the first call the salt is written to the sink,
\* the AEAD is set up and, unless its overhead is excessive, the counter is
\* made.  sw.aead is assigned before the overhead is looked at.
WriterInit(w, salt, ok, part) ==
    IF w.aead THEN [w |-> w, sent |-> <<>>, calls |-> <<>>, err |-> "nil"]
    ELSE LET s == SinkWrite(salt, ok, part) IN
    IF ~ok THEN [w |-> w, sent |-> s.sent, calls |-> s.calls, err |-> "salt"]
    ELSE IF ovh > maxCipherOverhead
    THEN [w |-> [w EXCEPT !.aead = TRUE, !.salt = salt], sent |-> s.sent,
          calls |-> s.calls, err |-> "overhead"]
    ELSE [w |-> [aead |-> TRUE, salt |-> salt, counter |-> ZeroCounter],
          sent |-> s.sent, calls |-> s.calls, err |-> "nil"]

\* sizeBuf[0], sizeBuf[1] = byte(plaintextSize>>8), byte(plaintextSize)
SizeBytes(size) == <<(size \div ByteMod) % ByteMod, size % ByteMod>>

\* One pass of the loop of ReadFrom that read the segment seg (at least one
\* byte): encryptBlock of the size, encryptBlock of the payload; buf is what
\* the pass hands to the sink in one Write.
EncodeSegment(w, seg) ==
    LET c1 == w.counter
        c2 == increment(c1)
    IN  [w |-> [w EXCEPT !.counter = increment(c2)],
         buf |-> Seal(w.salt, c1, SizeBytes(Len(seg))) \o Seal(w.salt, c2, seg),
         log |-> <<[kind |-> "len", nonce |-> c1, n |-> 2],
                   [kind |-> "payload", nonce |-> c2, n |-> Len(seg)]>>]

\* A loop that goes on to the next segment after a sink Write has failed.
RECURSIVE EncodeSegments_Continue(_, _, _, _, _, _)
EncodeSegments_Continue(data, parts, fail, part, j, a) ==
    IF j > Len(parts) \/ Len(a.w.counter) = 0 THEN a
    ELSE LET e == EncodeSegment(a.w, SubSeq(data, a.read + 1, a.read + parts[j]))
             s == SinkWrite(e.buf, fail # j, part)
         IN  EncodeSegments_Continue(data, parts, fail, part, j + 1,
                [a EXCEPT !.w = e.w, !.sent = @ \o s.sent, !.calls = @ \o s.calls,
                          !.log = @ \o e.log, !.read = @ + parts[j],
                          !.n = IF fail = j THEN @ ELSE @ + parts[j],
                          !.err = IF fail = j THEN "sink" ELSE @])

\* The loop of ReadFrom over a source that yields `data` in segments of the
\* lengths `parts` and then io.EOF; the sink Write of segment number `fail`
\* fails.  j is the number of the next segment and a is what the loop has
\* done so far: a.n is `written`, a.read the bytes taken from the source.
\* A writer whose counter was never made hands a nil nonce to Seal, which
\* panics while the box holds the buffer.
RECURSIVE EncodeSegments(_, _, _, _, _, _)
EncodeSegments(data, parts, fail, part, j, a) ==
    IF j > Len(parts) THEN a
    ELSE IF Len(a.w.counter) = 0
    THEN [a EXCEPT !.err = "nonce panic", !.box = TRUE, !.read = @ + 1]
    ELSE LET e == EncodeSegment(a.w, SubSeq(data, a.read + 1, a.read + parts[j]))
             s == SinkWrite(e.buf, fail # j, part)
             b == [a EXCEPT !.w = e.w, !.sent = @ \o s.sent, !.calls = @ \o s.calls,
                            !.log = @ \o e.log, !.read = @ + parts[j]]
         IN  IF fail = j THEN [b EXCEPT !.err = "sink"]
             ELSE EncodeSegments(data, parts, fail, part, j + 1,
                                 [b EXCEPT !.n = @ + parts[j]])

\* The segment lengths a source of c bytes can yield: r.Read(sw.firstByte[:])
\* gives one byte and r.Read(payloadBuf[1:payloadSizeMask]) gives between 0
\* and payloadSizeMask-1 more.
\* A source that yields all it has as one segment, whatever the room.
Segmentations_Whole(c) == IF c = 0 THEN {<<>>} ELSE {<<c>>}

RECURSIVE Segmentations(_)
Segmentations(c) ==
    IF c = 0 THEN {<<>>}
    ELSE UNION {{<<k>> \o r : r \in Segmentations(c - k)} :
                    k \in 1 .. Min(c, payloadSizeMask)}

\* The segment lengths bytes.Reader yields: all that fits, every time.
RECURSIVE Greedy(_)
Greedy(c) ==
    IF c = 0 THEN <<>>
    ELSE <<Min(c, payloadSizeMask)>> \o Greedy(c - Min(c, payloadSizeMask))

\* What a call of the writer returned, and how many seals and sink writes
\* had been made before it.  Kept where the calls of the writer are examined.
WriterResult(op, c, num, err, box) ==
    IF mode # "writer" THEN wret
    ELSE [op |-> op, c |-> c, n |-> num, err |-> err, box |-> box,
          pre |-> Len(wlog), calls |-> Len(sink)]

\* A call of ReadFrom on a source that holds the next c bytes of the
\* plaintext, yields them in the segments `parts` and then reports io.EOF.
\* The sink Write number `fail` of the call fails (-1: the Write of the salt,
\* 0: none) after `part` bytes.
Deliver(op, c, parts, salt, fail, part) ==
    /\ mode \in {"stream", "writer", "reader"}
    /\ ~closed
    /\ wret.err \notin Panics
    /\ sw.aead => salt = sw.salt /\ fail # -1
    /\ fail <= Len(parts)
    /\ fail # 0 => mode \in {"writer", "reader"} /\ faults < MaxFaults
    /\ \E i \in {WriterInit(sw, salt, fail # -1, part)} :
          IF i.err # "nil"
          THEN /\ sw' = i.w
               /\ wire' = wire \o i.sent
               /\ sink' = sink \o i.calls
               /\ wret' = WriterResult(op, c, 0, i.err, FALSE)
               /\ faults' = IF fail = -1 THEN faults + 1 ELSE faults
               /\ UNCHANGED <<wpos, wlog>>
          ELSE \E e \in {EncodeSegments(SubSeq(plain, wpos + 1, wpos + c), parts,
                                        fail, part, 1,
                                        [w |-> i.w, sent |-> i.sent, calls |-> i.calls,
                                         log |-> <<>>, n |-> 0, read |-> 0,
                                         err |-> "nil", box |-> FALSE])} :
               /\ sw' = e.w
               /\ wire' = wire \o e.sent
               /\ sink' = sink \o e.calls
               /\ wpos' = wpos + e.read
               /\ wlog' = wlog \o e.log
               /\ wret' = WriterResult(op, c, e.n, e.err, e.box)
               /\ faults' = IF e.err = "sink" THEN faults + 1 ELSE faults
    /\ UNCHANGED <<plain, closed, sr, out, rlast, rlog, rret, ovh, cacheVars, seqVars>>

\* shadowsocksWriter.ReadFrom(r)
ReadFrom(c, parts, salt, fail, part) == Deliver("ReadFrom", c, parts, salt, fail, part)

\* shadowsocksWriter.Write(p): sw.input.Reset(p); sw.ReadFrom(&sw.input)
Write(c, salt, fail, part) == Deliver("Write", c, Greedy(c), salt, fail, part)

\* The application closes the sink.
Close ==
    /\ mode \in {"stream", "reader"}
    /\ ~closed
    /\ closed' = TRUE
    /\ UNCHANGED <<plain, wpos, sw, wire, sr, out, rlast, wlog, rlog, sink, wret,
                   rret, ovh, faults, cacheVars, seqVars>>

\* A sealed block is altered on its way to the reader: its last byte, or the
\* last byte of the stream so far, is replaced (a block with any byte
\* altered fails to open, whichever byte it is).
Tamper ==
    /\ mode = "reader"
    /\ faults < MaxFaults
    /\ \E i \in 1 .. Len(wire) :
          /\ wire[i].kind = "ct"
          /\ IF i = Len(wire) THEN TRUE
             ELSE wire[i + 1].kind # "ct" \/ wire[i + 1].j = 1
          /\ wire' = [wire EXCEPT ![i] = Raw(0)]
    /\ faults' = faults + 1
    /\ UNCHANGED <<plain, wpos, sw, closed, sr, out, rlast, wlog, rlog, sink, wret,
                   rret, ovh, cacheVars, seqVars>>

\* A ReadFull that reports io.EOF however many bytes it got.
ShortRead_Clean(w) == "EOF"

\* io.ReadFull(sr.reader, buf) on a source that has ended after the bytes w.
ShortRead(w) == IF Len(w) = 0 THEN "EOF" ELSE "ErrUnexpectedEOF"

\* shadowsocksReader.init: on the first call the salt is read from the
\* source, the AEAD is set up and, unless its overhead is excessive, the
\* counter and the size buffer are made.  sr.aead is assigned before the
\* overhead is looked at.
ReaderInit(r, w) ==
    IF r.aead THEN [r |-> r, wire |-> w, err |-> "nil"]
    ELSE IF Len(w) < SaltSize THEN [r |-> r, wire |-> <<>>, err |-> ShortRead(w)]
    ELSE IF ovh > maxCipherOverhead
    THEN [r |-> [r EXCEPT !.aead = TRUE, !.salt = SubSeq(w, 1, SaltSize)],
          wire |-> SubSeq(w, SaltSize + 1, Len(w)), err |-> "overhead"]
    ELSE [r |-> [r EXCEPT !.aead = TRUE, !.salt = SubSeq(w, 1, SaltSize),
                          !.counter = ZeroCounter],
          wire |-> SubSeq(w, SaltSize + 1, Len(w)), err |-> "nil"]

\* shadowsocksReader.readBlock(buf) with len(buf) = k: the counter advances
\* whether or not Open succeeds.
readBlock(r, w, k, kind) ==
    IF Len(w) < k
    THEN [r |-> r, wire |-> <<>>, err |-> ShortRead(w), pt |-> <<>>, log |-> <<>>]
    ELSE LET buf == SubSeq(w, 1, k)
             ok == Opens(r.salt, r.counter, buf)
         IN  [r |-> [r EXCEPT !.counter = increment(@)],
              wire |-> SubSeq(w, k + 1, Len(w)),
              err |-> IF ok THEN "nil" ELSE "decrypt",
              pt |-> IF ok THEN buf[1].pt ELSE <<>>,
              log |-> <<[kind |-> kind, nonce |-> r.counter,
                         sealed |-> IF k >= 1 THEN buf[1].nonce ELSE <<>>,
                         len |-> k, ok |-> ok]>>]

\* shadowsocksReader.populateLeftover on a source that holds the bytes w and
\* then ends.  An EOF met by the payload block becomes ErrUnexpectedEOF; the
\* box stays acquired when the payload block fails.  A reader whose counter
\* and size buffer were never made reads a block of no bytes and hands a
\* nil nonce to Open, which panics.
populateLeftover(r, w) ==
    IF Len(r.leftover) # 0 THEN [r |-> r, wire |-> w, err |-> "nil", log |-> <<>>]
    ELSE LET i == ReaderInit(r, w) IN
    IF i.err # "nil" THEN [r |-> i.r, wire |-> i.wire, err |-> i.err, log |-> <<>>]
    ELSE IF Len(i.r.counter) = 0
    THEN [r |-> i.r, wire |-> i.wire, err |-> "nonce panic", log |-> <<>>]
    ELSE LET b1 == readBlock(i.r, i.wire, 2 + ovh, "len") IN
    IF b1.err # "nil" THEN [r |-> b1.r, wire |-> b1.wire, err |-> b1.err, log |-> b1.log]
    ELSE LET size == (b1.pt[1] * ByteMod + b1.pt[2]) % (payloadSizeMask + 1) IN
    IF b1.r.box THEN [r |-> b1.r, wire |-> b1.wire, err |-> "panic", log |-> b1.log]
    ELSE LET b2 == readBlock([b1.r EXCEPT !.box = TRUE], b1.wire, size + ovh,
                             "payload") IN
    IF b2.err # "nil"
    THEN [r |-> b2.r, wire |-> b2.wire,
          err |-> IF b2.err = "EOF" THEN "ErrUnexpectedEOF" ELSE b2.err,
          log |-> b1.log \o b2.log]
    ELSE [r |-> [b2.r EXCEPT !.leftover = SubSeq(b2.pt, 1, size)], wire |-> b2.wire,
          err |-> "nil", log |-> b1.log \o b2.log]

\* A drain that forgets what the caller's buffer had no room for.
drainLeftover_Drop(r, k) == [r EXCEPT !.leftover = <<>>, !.box = FALSE]

\* A drain that loses the byte after those the caller was given.
drainLeftover_Skip(r, k) ==
    LET rest == SubSeq(r.leftover, k + 2, Len(r.leftover))
    IN  [r EXCEPT !.leftover = rest, !.box = IF Len(rest) = 0 THEN FALSE ELSE @]

\* shadowsocksReader.drainLeftover(n)
drainLeftover(r, k) ==
    LET rest == SubSeq(r.leftover, k + 1, Len(r.leftover))
    IN  [r EXCEPT !.leftover = rest, !.box = IF Len(rest) = 0 THEN FALSE ELSE @]

\* A call blocked in io.ReadFull returns only when the bytes have come or
\* the source has ended.
Returns(p) == closed \/ p.err \notin {"EOF", "ErrUnexpectedEOF"}

\* What a call of the reader returned: n bytes; the call found `had` bytes
\* of leftover and, after populateLeftover, `rec` bytes; it opened `opened`
\* blocks, took `took` bytes from the source and read the salt or not.
\* Kept where the calls of the reader are examined.
ReaderResult(op, blen, num, rec, opened, after, src) ==
    IF mode # "reader" THEN rret
    ELSE [op |-> op, blen |-> blen, n |-> num, had |-> Len(sr.leftover),
          rec |-> rec, opened |-> opened, took |-> Len(wire) - Len(src),
          salted |-> after.aead /\ ~sr.aead]

\* shadowsocksReader.Read(b) with len(b) = blen.
Read(blen) ==
    /\ mode \in {"stream", "reader"}
    /\ rlast \notin Panics
    /\ \E p \in {populateLeftover(sr, wire)} :
          /\ Returns(p)
          /\ wire' = p.wire
          /\ rlog' = rlog \o p.log
          /\ rlast' = p.err
          /\ IF p.err # "nil"
             THEN /\ sr' = p.r
                  /\ out' = out
                  /\ rret' = ReaderResult("Read", blen, 0, 0, Len(p.log), p.r, p.wire)
             ELSE \E k \in {Min(blen, Len(p.r.leftover))} :
                     /\ out' = out \o SubSeq(p.r.leftover, 1, k)
                     /\ sr' = drainLeftover(p.r, k)
                     /\ rret' = ReaderResult("Read", blen, k, Len(p.r.leftover),
                                             Len(p.log), p.r, p.wire)
    /\ UNCHANGED <<plain, wpos, sw, closed, wlog, sink, wret, ovh, faults,
                   cacheVars, seqVars>>

\* The loop of shadowsocksReader.WriteTo(w) over a destination that takes
\* all it is given.
RECURSIVE WriteToLoop(_, _, _, _)
WriteToLoop(r, w, o, log) ==
    LET p == populateLeftover(r, w) IN
    IF p.err # "nil"
    THEN [r |-> p.r, wire |-> p.wire, out |-> o, log |-> log \o p.log, err |-> p.err]
    ELSE WriteToLoop(drainLeftover(p.r, Len(p.r.leftover)), p.wire,
                     o \o p.r.leftover, log \o p.log)

\* shadowsocksReader.WriteTo(w): it returns when the source has ended or a
\* block has failed; rlast is how the loop ended ("EOF": WriteTo returns a
\* nil error).
WriteTo ==
    /\ mode \in {"stream", "reader"}
    /\ rlast \notin Panics
    /\ \E x \in {WriteToLoop(sr, wire, out, <<>>)} :
          /\ Returns(x)
          /\ sr' = x.r
          /\ wire' = x.wire
          /\ out' = x.out
          /\ rlog' = rlog \o x.log
          /\ rlast' = x.err
          /\ rret' = ReaderResult("WriteTo", 0, Len(x.out) - Len(out), 0, Len(x.log),
                                  x.r, x.wire)
    /\ UNCHANGED <<plain, wpos, sw, closed, wlog, sink, wret, ovh, faults,
                   cacheVars, seqVars>>

NextStream ==
    \/ \E c \in 0 .. (Len(plain) - wpos) : \E salt \in Salts : Write(c, salt, 0, 0)
    \/ \E c \in 0 .. (Len(plain) - wpos) : \E parts \in Segmentations(c) :
          \E salt \in Salts : ReadFrom(c, parts, salt, 0, 0)
    \/ Close
    \/ \E blen \in 0 .. MaxBuf : Read(blen)
    \/ WriteTo

\* The plaintexts given to the writer: of every length up to MaxPlain, with
\* bytes that rise or fall from one position to the next.
Plaintexts ==
    {[i \in 1 .. k |-> (a * i + (i \div ByteMod)) % ByteMod] :
        k \in 0 .. MaxPlain, a \in {1, ByteMod - 1}}

InitStream ==
    /\ InitSets
    /\ n = 1
    /\ hasher = SeparatingTable
    /\ mode = "stream"
    /\ NewStream
    /\ NoSet64
    /\ NoBox
    /\ NoMap
    /\ NoFn
    /\ ovh = Overhead
    /\ plain \in Plaintexts

StreamSpec == InitStream /\ [][NextStream]_vars

\* The longest buffer a writer hands to its sink.
MaxRecord == 2 + ovh + Min(MaxPlain, payloadSizeMask) + ovh

\* How many bytes of a buffer reach the sink when the Write of it fails: in
\* a stream that is read, none, one, a sealed length and no more, or all
\* but the last; where only the writer is examined, none or all but the
\* last.
SinkParts(fail) ==
    IF fail = 0 THEN {0}
    ELSE IF mode = "writer" THEN {0, MaxRecord - 1}
    ELSE {0, 1, 2 + ovh, MaxRecord - 1}

\* The ciphers a stream can be made with: one of an accepted overhead and
\* one whose overhead is excessive.
Overheads == {Overhead, maxCipherOverhead + 1}

\* The segments of a source that yields single bytes, or full segments,
\* until it yields all the rest at once.
ByteWise(c) ==
    {p \in Segmentations(c) :
        \A i \in DOMAIN p : p[i] = 1 \/ p[i] = payloadSizeMask \/ i = Len(p)}

\* The salt drawn where the calls of one side are examined: the value of
\* the salt plays no part in them.
OneSalt == {[i \in 1 .. SaltSize |-> Raw(1)]}

\* A writer whose sink can fail and whose cipher can have an excessive
\* overhead; its calls are examined one by one.  The application has
\* MaxPlain bytes to give and gives any number of them at each call.
NextWriter ==
    \/ \E c \in 0 .. (Len(plain) - wpos) : \E salt \in OneSalt :
          \E fail \in -1 .. Len(Greedy(c)) : \E part \in SinkParts(fail) :
             Write(c, salt, fail, part)
    \/ \E c \in 0 .. (Len(plain) - wpos) : \E parts \in ByteWise(c) :
          \E salt \in OneSalt : \E fail \in -1 .. Len(parts) :
             \E part \in SinkParts(fail) : ReadFrom(c, parts, salt, fail, part)

InitWriter ==
    /\ InitSets
    /\ n = 1
    /\ hasher = SeparatingTable
    /\ mode = "writer"
    /\ NewStream
    /\ NoSet64
    /\ NoBox
    /\ NoMap
    /\ NoFn
    /\ ovh \in Overheads
    /\ plain \in {p \in Plaintexts : Len(p) = MaxPlain /\ p[1] = 1}

WriterSpec == InitWriter /\ [][NextWriter]_vars

\* A reader whose source is the sink of a writer of short plaintexts; the
\* sink can fail part of the way through a write, a sealed block can be
\* altered on the way and the cipher can have an excessive overhead.  The
\* calls of the reader are examined one by one; the writer is fed by Write.
\* The plaintexts of such a writer: a short one, of which any part can be
\* written, and one whose first two bytes spell the length field of a
\* record of two bytes.
ReaderPlaintexts ==
    {p \in Plaintexts : Len(p) = MaxShort /\ p[1] = 1} \cup {SizeBytes(2) \o <<1>>}

NextReader ==
    \/ \E c \in 0 .. (Len(plain) - wpos) : \E salt \in OneSalt :
          \E fail \in -1 .. Len(Greedy(c)) : \E part \in SinkParts(fail) :
             Write(c, salt, fail, part)
    \/ Close
    \/ Tamper
    \/ \E blen \in 0 .. MaxBuf : Read(blen)
    \/ WriteTo

InitReader ==
    /\ InitSets
    /\ n = 1
    /\ hasher = SeparatingTable
    /\ mode = "reader"
    /\ NewStream
    /\ NoSet64
    /\ NoBox
    /\ NoMap
    /\ NoFn
    /\ ovh \in Overheads
    /\ plain \in ReaderPlaintexts

ReaderSpec == InitReader /\ [][NextReader]_vars

\* -------------------------------------------------------- claims (stream)
\* The bytes the writer's calls have consumed.
Delivered == SubSeq(plain, 1, wpos)

IsPrefix(a, b) == Len(a) <= Len(b) /\ a = SubSeq(b, 1, Len(a))

\* C9: whatever calls of Write and ReadFrom gave the plaintext to the writer
\* and whatever calls of Read and WriteTo read its output, the reader
\* delivers the plaintext in order and nothing else, no call of the reader
\* fails, nothing is left undelivered when the output is read to its end, and
\* the end of the stream is reported only after all of the plaintext.
C9_RoundTrip ==
    /\ IsPrefix(out, Delivered)
    /\ rlast \in {"none", "nil", "EOF"}
    /\ (rlast = "EOF") => (closed /\ out = Delivered)
    /\ (closed /\ wire = <<>> /\ sr.leftover = <<>>) => (out = Delivered)

\* A plaintext of MaxPlain bytes, written in several records of which one
\* needs both bytes of the size, was read to the end of the stream.
C9_Witness ==
    /\ rlast = "EOF"
    /\ out = plain
    /\ Len(plain) = MaxPlain
    /\ Len(wlog) >= 4
    /\ Len(rlog) = Len(wlog)
    /\ \E i \in 1 .. Len(wlog) : wlog[i].kind = "payload" /\ wlog[i].n >= ByteMod

\* C10: the counter starts at zero and advances by one at each seal and at
\* each open; the k-th record has its size sealed and opened with counter
\* 2k and its payload with 2k+1; no nonce is used for two seals; the
\* reader's nonce for each block is the nonce the writer sealed it with.
C10_NonceSequence ==
    /\ \A i \in 1 .. Len(wlog) :
          /\ CounterValue(wlog[i].nonce) = i - 1
          /\ wlog[i].kind = (IF i % 2 = 1 THEN "len" ELSE "payload")
    /\ \A i \in 1 .. Len(wlog) : \A j \in 1 .. Len(wlog) :
          i # j => wlog[i].nonce # wlog[j].nonce
    /\ sw.aead => CounterValue(sw.counter) = Len(wlog)
    /\ \A i \in 1 .. Len(rlog) :
          /\ CounterValue(rlog[i].nonce) = i - 1
          /\ rlog[i].kind = (IF i % 2 = 1 THEN "len" ELSE "payload")
          /\ rlog[i].nonce = rlog[i].sealed
          /\ i <= Len(wlog) /\ rlog[i].nonce = wlog[i].nonce
    /\ sr.aead => CounterValue(sr.counter) = Len(rlog)

\* The reader has opened a block whose nonce needed a carry.
C10_Witness ==
    /\ Len(rlog) >= ByteMod + 2
    /\ rlog[Len(rlog)].nonce[2] # 0
    /\ rlog[Len(rlog)].kind = "payload"
    /\ rlog[Len(rlog)].nonce = wlog[Len(rlog)].nonce

\* ------------------------------------------------- claims (writer calls)
\* The plaintext length a record handed to the sink announces: the two
\* big-endian bytes sealed in its first block.
RecordLen(buf) == buf[1].pt[1] * ByteMod + buf[1].pt[2]

\* The records handed to the sink: every sink Write but that of the salt.
IsRecord(sc) == sc.buf[1].kind = "ct"

\* The sink Writes of records made by the writer's last call.
CallRecords ==
    SelectSeq(SubSeq(sink, wret.calls + 1, Len(sink)), IsRecord)

RECURSIVE SumLen(_)
SumLen(calls) ==
    IF Len(calls) = 0 THEN 0 ELSE RecordLen(calls[1].buf) + SumLen(Tail(calls))

\* C11: every record the writer emits announces and carries a plaintext
\* of at least 1 and at most payloadSizeMask bytes; a call with an empty
\* source emits no record; a call that returned without error emitted
\* records whose lengths sum to the length of its source, at least two of
\* them when the source is longer than payloadSizeMask.
C11_RecordSize ==
    /\ \A i \in 1 .. Len(sink) :
          IsRecord(sink[i]) =>
             /\ 1 <= RecordLen(sink[i].buf)
             /\ RecordLen(sink[i].buf) <= payloadSizeMask
             /\ Len(sink[i].buf) = 2 + ovh + RecordLen(sink[i].buf) + ovh
    /\ \A i \in 1 .. Len(wlog) :
          wlog[i].kind = "payload" => 1 <= wlog[i].n /\ wlog[i].n <= payloadSizeMask
    /\ (wret.op # "none" /\ wret.err = "nil") =>
          /\ SumLen(CallRecords) = wret.c
          /\ wret.c = 0 => Len(CallRecords) = 0
          /\ wret.c > payloadSizeMask => Len(CallRecords) >= 2

\* A Write of more than payloadSizeMask bytes returned after two records.
C11_Witness ==
    /\ wret.op = "Write"
    /\ wret.err = "nil"
    /\ wret.c > payloadSizeMask
    /\ Len(CallRecords) = 2
    /\ RecordLen(CallRecords[1].buf) = payloadSizeMask

\* A sink Write of a salt: SaltSize bytes that no Seal made.
IsSalt(sc) ==
    /\ Len(sc.buf) = SaltSize
    /\ \A j \in 1 .. Len(sc.buf) : sc.buf[j].kind = "raw"

\* b is the whole output of one Seal.
WellSealed(b) ==
    /\ Len(b) >= 1
    /\ b[1].kind = "ct"
    /\ b = Seal(b[1].key, b[1].nonce, b[1].pt)

\* buf is one record: 2 + Overhead bytes that seal a two-byte length L, then
\* L + Overhead bytes that seal L bytes.
IsWholeRecord(buf) ==
    /\ Len(buf) > 2 + ovh
    /\ WellSealed(SubSeq(buf, 1, 2 + ovh))
    /\ Len(buf[1].pt) = 2
    /\ Len(buf) = 2 + ovh + RecordLen(buf) + ovh
    /\ WellSealed(SubSeq(buf, 2 + ovh + 1, Len(buf)))
    /\ Len(buf[2 + ovh + 1].pt) = RecordLen(buf)

RECURSIVE SinkBytes(_)
SinkBytes(calls) ==
    IF Len(calls) = 0 THEN <<>> ELSE calls[1].buf \o SinkBytes(Tail(calls))

CallWrites == SubSeq(sink, wret.calls + 1, Len(sink))

IsOk(sc) == sc.ok

\* C13: on a writer whose cipher is accepted, a call of Write or ReadFrom
\* whose sink Writes all succeed returns the length of its source (len(p)
\* for Write, the bytes read up to io.EOF for ReadFrom) and a nil error; a
\* call in which a sink Write fails returns an error and the plaintext
\* length of the records written with success before it, and the failed
\* Write is the last sink Write of that call.
C13_WriterReturn ==
    (wret.op # "none" /\ ovh <= maxCipherOverhead) =>
       /\ (\A i \in 1 .. Len(CallWrites) : CallWrites[i].ok) =>
             wret.err = "nil" /\ wret.n = wret.c
       /\ (\E i \in 1 .. Len(CallWrites) : ~CallWrites[i].ok) =>
             /\ wret.err \in {"sink", "salt"}
             /\ ~CallWrites[Len(CallWrites)].ok
             /\ Len(SelectSeq(CallWrites, IsOk)) = Len(CallWrites) - 1
             /\ wret.n = SumLen(SelectSeq(CallRecords, IsOk))
       /\ wret.n <= wret.c

\* The sink Write of a record failed after the call had written another.
C13_Witness ==
    /\ wret.op = "Write"
    /\ wret.err = "sink"
    /\ wret.n >= 1
    /\ wret.n < wret.c
    /\ Len(CallRecords) = 2
    /\ ~CallRecords[2].ok

\* ------------------------------------------------- claims (reader calls)
\* The blocks opened by the reader's last call.
CallBlocks == SubSeq(rlog, Len(rlog) - rret.opened + 1, Len(rlog))

RECURSIVE BlockBytes(_)
BlockBytes(blocks) ==
    IF Len(blocks) = 0 THEN 0 ELSE blocks[1].len + BlockBytes(Tail(blocks))

\* The reader's last call took nothing from its source but a whole salt
\* and whole blocks, and the last block it took was not a length that was
\* accepted: the source ended where the call was about to read the first
\* byte of the salt or of a sealed length.
MetCleanEnd ==
    /\ rret.took = (IF rret.salted THEN SaltSize ELSE 0) + BlockBytes(CallBlocks)
    /\ rret.opened >= 1 =>
          ~(rlog[Len(rlog)].kind = "len" /\ rlog[Len(rlog)].ok)

\* The reader's last call met the end of its source.
MetEnd == rret.op # "none" /\ rlast \in {"EOF", "ErrUnexpectedEOF"}

\* C14: a call of the reader reports a clean end (Read returns io.EOF,
\* WriteTo returns nil) only if the source ended where the call was about
\* to read the first byte of a sealed length, the salt having been read; a
\* source that ended inside a sealed length, or inside the payload block
\* of an accepted length or right before it, makes the call return
\* io.ErrUnexpectedEOF.
C14_CleanEOF ==
    MetEnd =>
       /\ closed /\ wire = <<>>
       /\ (rlast = "EOF") = (MetCleanEnd /\ sr.aead)

\* C14 as the code has it: the clean end is also reported for a source that
\* ended before the first byte of the salt.
C14_CleanEOFOrNoSalt ==
    MetEnd =>
       /\ closed /\ wire = <<>>
       /\ (rlast = "EOF") = MetCleanEnd

\* After a whole record was read, a Read met the end of the source right
\* after an accepted length, with no byte of the payload block to come.
C14_Witness ==
    /\ closed
    /\ rret.op = "Read"
    /\ rlast = "ErrUnexpectedEOF"
    /\ rret.opened = 1
    /\ rlog[Len(rlog)].ok
    /\ rret.took = 2 + ovh
    /\ Len(out) >= 1

\* The plaintext lengths of the records the writer has sealed, in order.
RECURSIVE SealedLens(_)
SealedLens(log) ==
    IF Len(log) = 0 THEN <<>>
    ELSE (IF log[1].kind = "payload" THEN <<log[1].n>> ELSE <<>>)
            \o SealedLens(Tail(log))

\* The bytes from position a + 1 to position b of the plaintext lie in one
\* record of the lengths `lens`, the first of which starts after `base`.
RECURSIVE InOneRecord(_, _, _, _)
InOneRecord(a, b, lens, base) ==
    IF Len(lens) = 0 THEN FALSE
    ELSE \/ base <= a /\ b <= base + lens[1]
         \/ InOneRecord(a, b, Tail(lens), base + lens[1])

\* Every block the reader has read so far opened.
Unfailed == \A i \in DOMAIN rlog : rlog[i].ok

\* What a Read that returned nil did on its own: the count it returned, the
\* leftover it kept and the blocks it opened.
ReadShare ==
    (rret.op = "Read" /\ rlast = "nil") =>
       /\ rret.n = Min(rret.blen, rret.rec)
       /\ Len(sr.leftover) = rret.rec - rret.n
       /\ rret.rec >= 1
       /\ rret.opened = (IF rret.had = 0 THEN 2 ELSE 0)
       /\ rret.had > 0 => rret.rec = rret.had

\* The bytes delivered and kept are the plaintext in order, each byte once,
\* and those of the last Read that returned nil lie in one record.
InOrder ==
    /\ IsPrefix(out, Delivered)
    /\ (rret.op = "Read" /\ rlast = "nil") =>
          /\ IsPrefix(sr.leftover, SubSeq(Delivered, Len(out) + 1, wpos))
          /\ rret.n >= 1 => InOneRecord(Len(out) - rret.n, Len(out) + Len(sr.leftover),
                                         SealedLens(wlog), 0)

C16_BoxDiscipline ==
    /\ (rret.op # "none" /\ rlast \notin Panics) => (sr.box => Len(sr.leftover) > 0)
    /\ rlast # "panic"
    /\ (wret.op # "none" /\ wret.err \notin Panics) => ~wret.box

\* C17: on a stream whose AEAD has an overhead above maxCipherOverhead,
\* every call of the writer returns an error, every call of the reader
\* made once the AEAD exists returns an error, and nothing is ever sealed,
\* handed to the sink as a record, opened or delivered.
C17_OverheadRejected ==
    ovh > maxCipherOverhead =>
       /\ wret.op # "none" => wret.err \notin ({"nil"} \cup Panics)
       /\ (rret.op # "none" /\ sr.aead) => rlast \notin ({"nil", "EOF"} \cup Panics)
       /\ wlog = <<>> /\ rlog = <<>> /\ out = <<>>
       /\ \A i \in 1 .. Len(sink) : IsSalt(sink[i])

\* ------------------------------------------------------ increment alone
\* The byte slices increment is given: every slice of up to NonceSize bytes.
Counters == UNION {[1 .. len -> 0 .. (ByteMod - 1)] : len \in 0 .. NonceSize}

\* increment(b), on the slice given at first and then on what the call
\* before left in it.
ApplyIncrement ==
    /\ mode = "inc"
    /\ \E b \in {IF fn.done THEN fn.inc ELSE fn.ctr} :
          fn' = [fn EXCEPT !.done = TRUE, !.ctr = b, !.inc = increment(b)]
    /\ UNCHANGED <<cacheVars, mode, watch, hist, scn, saved, setVars, boxVars, mapVars,
                   streamVars>>

NextInc == ApplyIncrement

InitInc ==
    /\ InitSets
    /\ n = 1
    /\ hasher = SeparatingTable
    /\ mode = "inc"
    /\ NewStream
    /\ plain = <<>>
    /\ ovh = Overhead
    /\ NoSet64
    /\ NoBox
    /\ NoMap
    /\ \E b \in Counters :
          fn = [a |-> 0, b |-> 0, wrap |-> 0, done |-> FALSE, top |-> 0,
                start |-> 0, ctr |-> b, inc |-> <<>>]

IncSpec == InitInc /\ [][NextInc]_vars

\* C36: increment leaves in b, read as a little-endian number of Len(b)
\* bytes, the number it held plus one modulo 2^(bits of b); b keeps its
\* length, and a counter of all-ones bytes becomes all zeros.
C36_Increment ==
    fn.done =>
       /\ Len(fn.inc) = Len(fn.ctr)
       /\ \A i \in 1 .. Len(fn.inc) : fn.inc[i] \in 0 .. (ByteMod - 1)
       /\ CounterValue(fn.inc) = (CounterValue(fn.ctr) + 1) % (ByteMod ^ Len(fn.ctr))
       /\ (\A i \in 1 .. Len(fn.ctr) : fn.ctr[i] = ByteMod - 1) =>
             (\A i \in 1 .. Len(fn.inc) : fn.inc[i] = 0)

\* The counter of NonceSize bytes that held the largest number holds zero.
C36_Witness ==
    /\ fn.done
    /\ Len(fn.ctr) = NonceSize
    /\ \A i \in 1 .. NonceSize : fn.ctr[i] = ByteMod - 1
    /\ fn.inc = [i \in 1 .. NonceSize |-> 0]

\* The values in the cells of s.
Stored(s) == {s.vals[i] : i \in 1 .. Len(s.vals)} \ {0}

\* The cells of s that hold zero.
ZeroCells(s) == {i \in 1 .. Len(s.vals) : s.vals[i] = 0}

\* C40: in every state reached by Adds and Clears, Contains(v) returns
\* after at most capacity + 1 calls of Get, also on a full set and with
\* wrap > 0; Add(v) on a set that is not full returns, after at most two
\* accesses for each cell and one more, and when it returns true the values
\* stored are the old ones and v, and exactly one cell that held zero holds
\* a value.
C40_ProbesTerminate ==
    /\ [](mode = "set" =>
             \A v \in SetVals \ {0} :
                LET r == Set64Contains(s64, v, NoFail)
                IN  r.err = "nil" /\ r.ops <= Len(s64.vals) + 1)
    /\ [][(mode = "set" /\ sres'.op = "Add" /\ sres'.val # 0 /\ ~sres'.full) =>
             LET r == Set64Add(s64, sres'.val, NoFail)
             IN  /\ sres'.err = "nil"
                 /\ r.ops <= 2 * Len(s64.vals) + 1
                 /\ sres'.ok =>
                       /\ Stored(s64') = Stored(s64) \cup {sres'.val}
                       /\ ZeroCells(s64') \subseteq ZeroCells(s64)
                       /\ Cardinality(ZeroCells(s64')) = Cardinality(ZeroCells(s64)) - 1
                 /\ ~sres'.ok => s64' = s64]_vars

\* A Contains on a full set with wrap > 0 that made capacity + 1 calls of
\* Get, after an Add that went round the end of the cells.
C40_Witness ==
    /\ mode = "set"
    /\ sres.op = "Contains"
    /\ s64.count = Len(s64.vals)
    /\ s64.wrap > 0
    /\ Set64Contains(s64, sres.val, NoFail).ops = Len(s64.vals) + 1

\* --------------------------------------------- Set64 on a failing store
\* The accesses of one Add that may fail.
SetFailAts == 1 .. (2 * MaxSetLen)

\* s.Add(val) in which access failAt of the backing store fails (a file64
\* fails in ReadAt or WriteAt, and the failed access changes nothing): Add
\* returns the error.  The set is not used for Add again.
SetAddFailing(val, failAt) ==
    /\ mode = "setfault"
    /\ \E r \in {Set64Add(s64, val, failAt)} :
          /\ r.err = "io"
          /\ s64' = r.s
          /\ sres' = [op |-> "Add", val |-> val, ok |-> r.ok, err |-> r.err,
                      was |-> val \in kept, count |-> s64.count,
                      full |-> s64.count = Len(s64.vals), wrap |-> s64.wrap]
    /\ mode' = "setfailed"
    /\ UNCHANGED <<kept, cacheVars, watch, hist, scn, saved, boxVars, mapVars, fnVars,
                   streamVars>>

NextSetFault ==
    \/ \E val \in SetVals : SetAdd(val)
    \/ \E val \in SetVals : \E failAt \in SetFailAts : SetAddFailing(val, failAt)
    \/ \E val \in SetVals : SetContains(val)

InitSetFault ==
    /\ InitSets
    /\ n = 1
    /\ hasher = SeparatingTable
    /\ mode = "setfault"
    /\ NewStream
    /\ plain = <<>>
    /\ ovh = Overhead
    /\ \E len \in 1 .. MaxSetLen : s64 = EmptySet64(len)
    /\ kept = {}
    /\ sres = NoSres
    /\ NoBox
    /\ NoMap
    /\ NoFn

SetFaultSpec == InitSetFault /\ [][NextSetFault]_vars

\* The values Contains reports in s.
Reported(s) == {v \in SetVals : Set64Contains(s, v, NoFail).ok}

\* C39: when Add returns the error of a failed Get or Set of the backing
\* store, every value that Contains reported before the call is reported
\* after it, and count is the number of nonzero cells.
C39_AddAtomic ==
    [][(mode = "setfault" /\ mode' = "setfailed") =>
          /\ Reported(s64) \subseteq Reported(s64')
          /\ s64'.count = NonzeroCells(s64')]_vars

\* The count half on its own: it holds.
FailedAddKeepsCount ==
    [][(mode = "setfault" /\ mode' = "setfailed") =>
          s64'.count = NonzeroCells(s64')]_vars

====
